---- MODULE Spec2Model ----
(***************************************************************************)
(* Turn orchestration core of the Luna RPG engine: GameEngine.process_turn *)
(* with the StateManager mutators, the QuestEngine, the StoryDirector and  *)
(* the LLMManager fallback chain it sequences, and the MainWindow slot     *)
(* that starts turns.                                                      *)
(***************************************************************************)
EXTENDS Integers, Sequences, FiniteSets, Bags, TLC

VARIABLES
    game_state,       \* StateManager._current (GameState)
    active_states,    \* QuestEngine.active_states, in dict insertion order
    beat_completed,   \* StoryDirector._beat_completed
    beat_history,     \* StoryDirector.beat_history
    recent_messages,  \* len(MemoryManager._recent_messages)
    turns,            \* the process_turn coroutines in flight, a bag
    started,          \* number of process_turn calls made so far
    btn_send_enabled, \* MainWindow.btn_send.isEnabled()
    last_result,      \* outcome of the process_turn call that ended last
    gen,              \* one LLMManager.generate call with its caller
    dir,              \* one StoryDirector.get_active_instruction call
    quest_call,       \* one QuestEngine.process_turn call with its inputs
    memory,           \* MemoryManager: message cache, summaries, calls
    parse,            \* one provider client's _parse_response call
    search,           \* two runs of MemoryManager.search_memories
    validation,       \* one StoryDirector.validate_beat_execution call
    media,            \* the MediaPipeline.generate_all jobs of the turns
    session,          \* one session played, saved to the database and loaded
    personality,      \* PersonalityEngine: the states of the companions
    evaluation        \* one condition, beat trigger or action batch run alone

vars == <<game_state, active_states, beat_completed, beat_history,
          recent_messages, turns, started, btn_send_enabled, last_result,
          gen, dir, quest_call, memory, parse, search, validation, media,
          session, personality, evaluation>>

\* the calls observed on their own
sideVars == <<session, personality, evaluation>>
probeVars == <<search, validation, media, sideVars>>
callVars == <<quest_call, memory, parse, probeVars>>

engineVars == <<game_state, active_states, recent_messages, turns, started,
                btn_send_enabled, last_result>>

directorVars == <<beat_completed, beat_history, dir>>

----------------------------------------------------------------------------
(* Bounds of the model *)

MaxTurns == 3
MaxInFlight == 2
MaxDirTurn == 3
MaxBeatHistory == 2

----------------------------------------------------------------------------
(* Generic helpers *)

Max(a, b) == IF a >= b THEN a ELSE b
Min(a, b) == IF a <= b THEN a ELSE b

Range(s) == {s[i] : i \in 1..Len(s)}

NoDup(s) == \A i, j \in 1..Len(s) : i # j => s[i] # s[j]

\* list.remove(x): removes the first occurrence
RECURSIVE ListRemove(_, _)
ListRemove(s, x) ==
    IF s = <<>> THEN <<>>
    ELSE IF Head(s) = x THEN Tail(s)
    ELSE <<Head(s)>> \o ListRemove(Tail(s), x)

----------------------------------------------------------------------------
(* Content: a small world definition (companions, locations, quests, arc) *)

Companions == <<"Luna", "Stella">>
CompanionSet == Range(Companions)

\* wardrobe of each companion
Wardrobe == [Luna |-> {"default", "gym"}, Stella |-> {"default"}]

TimeOfDayValues == {"Morning", "Afternoon", "Evening", "Night"}

LocationOrder == <<"classroom", "park", "roof">>
LocationIds == Range(LocationOrder)
Locations ==
    [classroom |-> [connected_to |-> {"park"}],
     park      |-> [connected_to |-> {"classroom"}],
     roof      |-> [connected_to |-> {}]]

----------------------------------------------------------------------------
(* Values of conditions, actions and flags: Python ints, strings and bools *)

VInt(n) == [t |-> "int", n |-> n, s |-> ""]
VStr(s) == [t |-> "str", n |-> 0, s |-> s]
VBool(b) == [t |-> "bool", n |-> IF b THEN 1 ELSE 0,
             s |-> IF b THEN "True" ELSE "False"]

\* isinstance(v, (int, float)): bool is a subclass of int
IsNum(v) == v.t \in {"int", "bool"}
\* str(v)
PyStr(v) == IF v.t = "int" THEN ToString(v.n) ELSE v.s
\* bool(v)
Truthy(v) == IF v.t = "str" THEN v.s # "" ELSE v.n # 0

\* str.lower() on the strings of this world
Lower(s) ==
    CASE s = "Luna" -> "luna"
      [] s = "Stella" -> "stella"
      [] s = "Morning" -> "morning"
      [] s = "Afternoon" -> "afternoon"
      [] s = "Evening" -> "evening"
      [] s = "Night" -> "night"
      [] s = "True" -> "true"
      [] s = "False" -> "false"
      [] s = "Kiss" -> "kiss"
      [] s = "A Kiss" -> "a kiss"
      [] OTHER -> s

\* lexicographic order of the lower-cased strings this world compares
StrSorted == <<"0", "1", "2", "50", "afternoon", "classroom", "evening",
               "false", "luna", "morning", "night", "park", "roof",
               "stella", "true">>
StrRank(s) == IF s \in Range(StrSorted)
              THEN CHOOSE i \in 1..Len(StrSorted) : StrSorted[i] = s
              ELSE 0
\* `sub in s` for the strings this world compares
StrContains(sub, s) ==
    \/ sub = s
    \/ sub = ""
    \/ <<sub, s>> \in {<<"noon", "afternoon">>, <<"room", "classroom">>,
                       <<"ark", "park">>, <<"kiss", "a kiss">>,
                       <<"kiss", "kissed and hugged">>,
                       <<"hug", "kissed and hugged">>}

QuestCondition(type, target, operator, value, pattern) ==
    [type |-> type, target |-> target, operator |-> operator,
     value |-> value, pattern |-> pattern]

QuestAction(action, key, value, character, target, outfit, quest_id) ==
    [action |-> action, key |-> key, value |-> value,
     character |-> character, target |-> target, outfit |-> outfit,
     quest_id |-> quest_id]

StartQuest(q) == QuestAction("start_quest", "", VInt(0), "", "", "", q)
CompleteQuest(q) == QuestAction("complete_quest", "", VInt(0), "", "", "", q)
FailQuest(q) == QuestAction("fail_quest", "", VInt(0), "", "", "", q)
ChangeAffinity(c, v) == QuestAction("change_affinity", "", v, c, "", "", "")
SetFlag(k, v) == QuestAction("set_flag", k, v, "", "", "", "")
SetLocation(l) == QuestAction("set_location", "", VInt(0), "", l, "", "")
SetOutfit(o) == QuestAction("set_outfit", "", VInt(0), "", "", o, "")
SetEmotion(c, e) ==
    QuestAction("set_emotional_state", "", VStr(e), c, "", "", "")

Transition(c, t) == [condition |-> c, target_stage |-> t]

QuestOrder == <<"q1", "q2", "q3", "q4">>
QuestIds == Range(QuestOrder)

QuestDefs ==
    [q1 |->
       [activation_type |-> "auto",
        activation_conditions |-> <<>>,
        trigger_event |-> "",
        required_quests |-> <<>>,
        start_stage |-> "s1",
        stage_order |-> <<"s1", "s2">>,
        stages |->
          [s1 |->
             [on_enter |-> <<StartQuest("q1"),
                             ChangeAffinity("Luna", VInt(50))>>,
              exit_conditions |->
                <<QuestCondition("action", "", "", VInt(0), "addio"),
                  QuestCondition("affinity", "Luna", "gte", VInt(50), "")>>,
              transitions |-> <<Transition("condition_0", "_fail"),
                                Transition("condition_1", "s2")>>],
           s2 |->
             [on_enter |-> <<CompleteQuest("q1"),
                             SetFlag("met", VBool(TRUE)),
                             SetEmotion("", "happy")>>,
              exit_conditions |->
                <<QuestCondition("turn_count", "", "gte", VInt(1), "")>>,
              transitions |-> <<Transition("condition_0", "_complete")>>]],
        rewards |->
          [affinity |-> <<<<"Luna", VInt(60)>>, <<"Stella", VInt(-10)>>>>,
           flags |-> <<<<"trigger_go", VBool(TRUE)>>>>,
           unlock_quests |-> <<"q2", "q1">>]],
     q2 |->
       [activation_type |-> "auto",
        activation_conditions |->
          <<QuestCondition("location", "", "eq", VStr("park"), "")>>,
        trigger_event |-> "",
        required_quests |-> <<"q1">>,
        start_stage |-> "intro",
        stage_order |-> <<"t1">>,
        stages |->
          [t1 |->
             [on_enter |-> <<ChangeAffinity("Stella", VStr("lots")),
                             SetOutfit("gym"),
                             FailQuest("q2")>>,
              exit_conditions |->
                <<QuestCondition("flag", "kissed", "eq", VBool(TRUE), "")>>,
              transitions |-> <<Transition("condition_0", "_complete"),
                                Transition("default", "t2")>>]],
        rewards |->
          [affinity |-> <<>>, flags |-> <<>>, unlock_quests |-> <<>>]],
     q3 |->
       [activation_type |-> "trigger",
        activation_conditions |-> <<>>,
        trigger_event |-> "go3",
        required_quests |-> <<>>,
        start_stage |-> "w1",
        stage_order |-> <<"w1", "w2">>,
        stages |->
          [w1 |->
             [on_enter |-> <<>>,
              exit_conditions |->
                <<QuestCondition("turn_count", "", "gte", VInt(5), ""),
                  QuestCondition("action", "", "", VInt(0), "addio")>>,
              transitions |-> <<Transition("condition_0", "w2")>>],
           w2 |->
             [on_enter |-> <<>>,
              exit_conditions |-> <<>>,
              transitions |-> <<Transition("condition_1", "w1"),
                                Transition("default", "_complete")>>]],
        rewards |->
          [affinity |-> <<>>, flags |-> <<>>, unlock_quests |-> <<>>]],
     q4 |->
       [activation_type |-> "trigger",
        activation_conditions |-> <<>>,
        trigger_event |-> "go4",
        required_quests |-> <<>>,
        start_stage |-> "",
        stage_order |-> <<>>,
        stages |-> <<>>,
        rewards |->
          [affinity |-> <<>>, flags |-> <<>>, unlock_quests |-> <<>>]]]

----------------------------------------------------------------------------
(* Python dicts as functions with a growing domain *)

DictGet(d, k, default) == IF k \in DOMAIN d THEN d[k] ELSE default
DictSet(d, k, v) == [x \in (DOMAIN d) \cup {k} |-> IF x = k THEN v ELSE d[x]]

----------------------------------------------------------------------------
(* StateManager mutators (gs is the GameState they act on) *)

\* the same mutator without the clamp
change_affinity_unclamped(gs, companion, delta, clamp) ==
    [gs EXCEPT !.affinity =
        DictSet(@, companion, DictGet(gs.affinity, companion, 0) + delta)]

change_affinity(gs, companion, delta, clamp) ==
    LET current == DictGet(gs.affinity, companion, 0)
        new_value == current + delta
        stored == IF clamp THEN Max(0, Min(100, new_value)) ELSE new_value
    IN [gs EXCEPT !.affinity = DictSet(@, companion, stored)]

advance_turn(gs) == [gs EXCEPT !.turn_count = @ + 1]

set_time(gs, time_of_day) == [gs EXCEPT !.time_of_day = time_of_day]

set_location(gs, location) == [gs EXCEPT !.current_location = location]

set_outfit_style(gs, style) == [gs EXCEPT !.companion_outfit = style]

set_outfit(gs, outfit) == set_outfit_style(gs, outfit)

update_npc_emotion(gs, name, emotion) ==
    [gs EXCEPT !.npc_states = DictSet(@, name, emotion)]

\* the same mutator without the completed-quest guard
start_quest_unguarded(gs, quest_id) ==
    IF quest_id \in Range(gs.active_quests) THEN gs
    ELSE [gs EXCEPT !.active_quests = Append(@, quest_id)]

start_quest(gs, quest_id) ==
    IF quest_id \in Range(gs.active_quests) THEN gs
    ELSE IF quest_id \in Range(gs.completed_quests) THEN gs
    ELSE [gs EXCEPT !.active_quests = Append(@, quest_id)]

complete_quest(gs, quest_id) ==
    IF quest_id \notin Range(gs.active_quests) THEN gs
    ELSE [gs EXCEPT !.active_quests = ListRemove(@, quest_id),
                    !.completed_quests = Append(@, quest_id)]

fail_quest(gs, quest_id) ==
    IF quest_id \notin Range(gs.active_quests) THEN gs
    ELSE [gs EXCEPT !.active_quests = ListRemove(@, quest_id)]

set_flag(gs, key, value) == [gs EXCEPT !.flags = DictSet(@, key, value)]

----------------------------------------------------------------------------
(* ConditionEvaluator *)

\* re.search(pattern, user_input, re.IGNORECASE); the patterns of this world
\* are plain words and an input is its sequence of lower-case words
Search(pattern, user_input) == pattern \in Range(user_input)

Compare(actual, operator, expected) ==
    IF IsNum(actual) /\ IsNum(expected)
       /\ operator \in {"eq", "gt", "lt", "gte", "lte"}
    THEN CASE operator = "eq" -> actual.n = expected.n
           [] operator = "gt" -> actual.n > expected.n
           [] operator = "lt" -> actual.n < expected.n
           [] operator = "gte" -> actual.n >= expected.n
           [] operator = "lte" -> actual.n <= expected.n
    ELSE LET actual_str == Lower(PyStr(actual))
             expected_str == Lower(PyStr(expected))
         IN CASE operator = "eq" -> actual_str = expected_str
              [] operator = "contains" -> StrContains(expected_str, actual_str)
              [] operator = "gt" -> StrRank(actual_str) > StrRank(expected_str)
              [] operator = "lt" -> StrRank(actual_str) < StrRank(expected_str)
              [] OTHER -> FALSE

evaluate(condition, gs, user_input, turn_count) ==
    CASE condition.type = "affinity" ->
           LET target == IF condition.target # "" THEN condition.target
                         ELSE gs.active_companion
           IN Compare(VInt(DictGet(gs.affinity, target, 0)),
                      condition.operator, condition.value)
      [] condition.type = "location" ->
           Compare(VStr(gs.current_location), condition.operator,
                   condition.value)
      [] condition.type = "time" ->
           Compare(VStr(gs.time_of_day), condition.operator, condition.value)
      [] condition.type = "flag" ->
           LET actual_value ==
                   DictGet(gs.quest_flags, condition.target, VBool(FALSE))
           IN IF actual_value.t = "bool"
              THEN LET compare_value ==
                           IF condition.value.t = "bool"
                           THEN condition.value.n = 1
                           ELSE Lower(PyStr(condition.value)) = "true"
                   IN (actual_value.n = 1) = compare_value
              ELSE PyStr(actual_value) = PyStr(condition.value)
      [] condition.type = "turn_count" ->
           Compare(VInt(turn_count), condition.operator, condition.value)
      [] condition.type = "inventory" ->
           \* the player's inventory stays empty in this world
           IsNum(condition.value) /\ condition.value.n = 0
      [] condition.type = "action" ->
           IF condition.pattern # ""
           THEN Search(condition.pattern, user_input) ELSE FALSE
      [] condition.type = "companion" ->
           Compare(VStr(gs.active_companion), condition.operator,
                   condition.value)
      [] condition.type = "quest_status" -> TRUE
      [] OTHER -> FALSE

\* all(...) over the conditions, TRUE when there are none
_evaluate_conditions(conditions, gs, user_input, turn_count) ==
    \A i \in 1..Len(conditions) :
        evaluate(conditions[i], gs, user_input, turn_count)

----------------------------------------------------------------------------
(* ActionExecutor.execute: [ok, gs]; an exception is caught and gives ok =  *)
(* FALSE with the state as it was when it was raised                       *)

execute(action, gs) ==
    LET a == action.action
    IN CASE a = "set_flag" ->
              [ok |-> TRUE, gs |-> set_flag(gs, action.key, action.value)]
         [] a = "change_affinity" ->
              LET char == IF action.character # "" THEN action.character
                          ELSE gs.active_companion
              IN IF char = "" THEN [ok |-> TRUE, gs |-> gs]
                 ELSE IF action.value.t = "str"
                 THEN [ok |-> FALSE, gs |-> gs]   \* int + str: TypeError
                 ELSE [ok |-> TRUE,
                       gs |-> change_affinity(gs, char, action.value.n, TRUE)]
         [] a = "set_location" ->
              [ok |-> TRUE,
               gs |-> IF action.target # ""
                      THEN set_location(gs, action.target) ELSE gs]
         [] a = "set_outfit" ->
              [ok |-> TRUE,
               gs |-> IF action.outfit # ""
                      THEN set_outfit(gs, action.outfit) ELSE gs]
         [] a = "set_emotional_state" ->
              LET char == IF action.character # "" THEN action.character
                          ELSE gs.active_companion
              IN [ok |-> TRUE,
                  gs |-> IF char # "" /\ Truthy(action.value)
                         THEN update_npc_emotion(gs, char, PyStr(action.value))
                         ELSE gs]
         [] a = "start_quest" ->
              [ok |-> TRUE,
               gs |-> IF action.quest_id # ""
                      THEN start_quest(gs, action.quest_id) ELSE gs]
         [] a = "complete_quest" ->
              [ok |-> TRUE,
               gs |-> IF action.quest_id # ""
                      THEN complete_quest(gs, action.quest_id) ELSE gs]
         [] a = "fail_quest" ->
              [ok |-> TRUE,
               gs |-> IF action.quest_id # ""
                      THEN fail_quest(gs, action.quest_id) ELSE gs]
         [] OTHER -> [ok |-> FALSE, gs |-> gs]

\* a loop that ends at the first action that fails
RECURSIVE ExecuteAllAborting(_, _, _)
ExecuteAllAborting(actions, gs, executed) ==
    IF actions = <<>> THEN [gs |-> gs, executed |-> executed]
    ELSE LET r == execute(Head(actions), gs)
         IN IF r.ok
            THEN ExecuteAllAborting(Tail(actions), r.gs,
                                    Append(executed, Head(actions)))
            ELSE [gs |-> r.gs, executed |-> executed]

\* for action in actions: if execute(action): actions_executed.append(action)
RECURSIVE ExecuteAll(_, _, _)
ExecuteAll(actions, gs, executed) ==
    IF actions = <<>> THEN [gs |-> gs, executed |-> executed]
    ELSE LET r == execute(Head(actions), gs)
         IN ExecuteAll(Tail(actions), r.gs,
                       IF r.ok THEN Append(executed, Head(actions))
                       ELSE executed)

----------------------------------------------------------------------------
(* QuestEngine. qs is active_states: the QuestInstances in the insertion   *)
(* order of the dict; completed_at = -1 stands for None                    *)

QuestInstance(quest_id, status, current_stage_id, started_at) ==
    [quest_id |-> quest_id, status |-> status,
     current_stage_id |-> current_stage_id, started_at |-> started_at,
     completed_at |-> -1]

HasInstance(qs, quest_id) == \E i \in 1..Len(qs) : qs[i].quest_id = quest_id
IndexOf(qs, quest_id) == CHOOSE i \in 1..Len(qs) : qs[i].quest_id = quest_id
InstanceOf(qs, quest_id) == qs[IndexOf(qs, quest_id)]
\* self.active_states[quest_id] = instance
PutInstance(qs, instance) ==
    IF HasInstance(qs, instance.quest_id)
    THEN [qs EXCEPT ![IndexOf(qs, instance.quest_id)] = instance]
    ELSE Append(qs, instance)

RECURSIVE check_activations_from(_, _, _)
check_activations_from(order, qs, gs) ==
    IF order = <<>> THEN <<>>
    ELSE LET quest_id == Head(order)
             quest == QuestDefs[quest_id]
             rest == check_activations_from(Tail(order), qs, gs)
             skip == /\ HasInstance(qs, quest_id)
                     /\ InstanceOf(qs, quest_id).status
                            \in {"active", "completed"}
             fire ==
               CASE quest.activation_type = "auto" ->
                      _evaluate_conditions(quest.activation_conditions, gs,
                                           <<>>, gs.turn_count)
                 [] quest.activation_type = "trigger" ->
                      /\ quest.trigger_event # ""
                      /\ Truthy(DictGet(gs.quest_flags,
                                        "trigger_" \o quest.trigger_event,
                                        VBool(FALSE)))
                 [] OTHER -> FALSE
         IN IF ~skip /\ fire THEN <<quest_id>> \o rest ELSE rest

check_activations(qs, gs) == check_activations_from(QuestOrder, qs, gs)

\* the same check satisfied by a prerequisite in any status
required_quests_present(quest, qs) ==
    \A i \in 1..Len(quest.required_quests) :
        HasInstance(qs, quest.required_quests[i])

required_quests_completed(quest, qs) ==
    \A i \in 1..Len(quest.required_quests) :
        /\ HasInstance(qs, quest.required_quests[i])
        /\ InstanceOf(qs, quest.required_quests[i]).status = "completed"

\* [ok, qs, gs, executed]; ok = FALSE is the None result
activate_quest(quest_id, qs, gs) ==
    IF quest_id \notin QuestIds
    THEN [ok |-> FALSE, qs |-> qs, gs |-> gs, executed |-> <<>>]
    ELSE LET quest == QuestDefs[quest_id] IN
    IF ~required_quests_completed(quest, qs)
    THEN [ok |-> FALSE, qs |-> qs, gs |-> gs, executed |-> <<>>]
    ELSE LET start_stage_id ==
                 IF quest.start_stage \in DOMAIN quest.stages
                 THEN quest.start_stage
                 ELSE IF quest.stage_order # <<>>
                      THEN quest.stage_order[1] ELSE ""
             instance == QuestInstance(quest_id, "active", start_stage_id,
                                       gs.turn_count)
             qs1 == PutInstance(qs, instance)
             r == IF start_stage_id \in DOMAIN quest.stages
                  THEN ExecuteAll(quest.stages[start_stage_id].on_enter,
                                  gs, <<>>)
                  ELSE [gs |-> gs, executed |-> <<>>]
         IN [ok |-> TRUE, qs |-> qs1, gs |-> r.gs, executed |-> r.executed]

RECURSIVE PairsToAffinity(_)
PairsToAffinity(pairs) ==
    IF pairs = <<>> THEN <<>>
    ELSE <<ChangeAffinity(Head(pairs)[1], Head(pairs)[2])>>
         \o PairsToAffinity(Tail(pairs))
RECURSIVE PairsToFlags(_)
PairsToFlags(pairs) ==
    IF pairs = <<>> THEN <<>>
    ELSE <<SetFlag(Head(pairs)[1], Head(pairs)[2])>>
         \o PairsToFlags(Tail(pairs))
RECURSIVE IdsToStart(_)
IdsToStart(ids) ==
    IF ids = <<>> THEN <<>>
    ELSE <<StartQuest(Head(ids))>> \o IdsToStart(Tail(ids))

_rewards_to_actions(rewards) ==
    PairsToAffinity(rewards.affinity) \o PairsToFlags(rewards.flags)
    \o IdsToStart(rewards.unlock_quests)

\* QuestUpdateResult with the states after the transition
UpdateResult(qs, gs, stage_changed, completed, failed, executed) ==
    [some |-> TRUE, qs |-> qs, gs |-> gs, stage_changed |-> stage_changed,
     quest_completed |-> completed, quest_failed |-> failed,
     executed |-> executed]
NoUpdate(qs, gs) ==
    [some |-> FALSE, qs |-> qs, gs |-> gs, stage_changed |-> FALSE,
     quest_completed |-> FALSE, quest_failed |-> FALSE, executed |-> <<>>]

\* the same transition without the check that the target stage is declared
_transition_stage_unchecked(quest_id, quest, instance, to_stage_id, qs, gs) ==
    CASE to_stage_id = "_complete" ->
           LET inst == [instance EXCEPT !.status = "completed",
                                        !.completed_at = gs.turn_count]
               r == ExecuteAll(_rewards_to_actions(quest.rewards), gs, <<>>)
           IN UpdateResult(PutInstance(qs, inst), r.gs, TRUE, TRUE, FALSE,
                           r.executed)
      [] to_stage_id = "_fail" ->
           UpdateResult(PutInstance(qs, [instance EXCEPT !.status = "failed"]),
                        gs, TRUE, FALSE, TRUE, <<>>)
      [] OTHER ->
           UpdateResult(PutInstance(qs, [instance EXCEPT
                                            !.current_stage_id = to_stage_id]),
                        gs, TRUE, FALSE, FALSE, <<>>)

_transition_stage(quest_id, quest, instance, to_stage_id, qs, gs) ==
    CASE to_stage_id = "_complete" ->
           LET inst == [instance EXCEPT !.status = "completed",
                                        !.completed_at = gs.turn_count]
               r == ExecuteAll(_rewards_to_actions(quest.rewards), gs, <<>>)
           IN UpdateResult(PutInstance(qs, inst), r.gs, TRUE, TRUE, FALSE,
                           r.executed)
      [] to_stage_id = "_fail" ->
           UpdateResult(PutInstance(qs, [instance EXCEPT !.status = "failed"]),
                        gs, TRUE, FALSE, TRUE, <<>>)
      [] OTHER ->
           IF to_stage_id \notin DOMAIN quest.stages
           THEN UpdateResult(qs, gs, FALSE, FALSE, FALSE, <<>>)
           ELSE LET inst == [instance EXCEPT !.current_stage_id = to_stage_id]
                    r == ExecuteAll(quest.stages[to_stage_id].on_enter, gs,
                                    <<>>)
                IN UpdateResult(PutInstance(qs, inst), r.gs, TRUE, FALSE,
                                FALSE, r.executed)

\* index (from 0) of the last satisfied exit condition, -1 for None
RECURSIVE LastSatisfied(_, _, _, _)
LastSatisfied(conditions, i, gs, user_input) ==
    IF i > Len(conditions) THEN -1
    ELSE LET later == LastSatisfied(conditions, i + 1, gs, user_input)
         IN IF later # -1 THEN later
            ELSE IF evaluate(conditions[i], gs, user_input, gs.turn_count)
            THEN i - 1 ELSE -1

\* index (from 0) of the first satisfied exit condition, -1 for None
RECURSIVE FirstSatisfied(_, _, _, _)
FirstSatisfied(conditions, i, gs, user_input) ==
    IF i > Len(conditions) THEN -1
    ELSE IF evaluate(conditions[i], gs, user_input, gs.turn_count)
    THEN i - 1
    ELSE FirstSatisfied(conditions, i + 1, gs, user_input)

\* target of the first matching transition, "" for None
RECURSIVE FindTransition(_, _)
FindTransition(transitions, triggered_idx) ==
    IF transitions = <<>> THEN ""
    ELSE LET cond_name == Head(transitions).condition
         IN IF triggered_idx # -1
               /\ cond_name = "condition_" \o ToString(triggered_idx)
            THEN Head(transitions).target_stage
            ELSE IF cond_name = "default" /\ triggered_idx = -1
            THEN Head(transitions).target_stage
            ELSE FindTransition(Tail(transitions), triggered_idx)

\* QuestEngine.process_turn
quest_process_turn(quest_id, qs, gs, user_input) ==
    IF ~HasInstance(qs, quest_id) THEN NoUpdate(qs, gs)
    ELSE LET instance == InstanceOf(qs, quest_id) IN
    IF instance.status # "active" THEN NoUpdate(qs, gs)
    ELSE IF quest_id \notin QuestIds THEN NoUpdate(qs, gs)
    ELSE LET quest == QuestDefs[quest_id] IN
    IF instance.current_stage_id \notin DOMAIN quest.stages
    THEN NoUpdate(qs, gs)
    ELSE LET current_stage == quest.stages[instance.current_stage_id]
             triggered_idx == FirstSatisfied(current_stage.exit_conditions, 1,
                                             gs, user_input)
             target_stage_id == FindTransition(current_stage.transitions,
                                               triggered_idx)
         IN IF target_stage_id = "" THEN NoUpdate(qs, gs)
            ELSE _transition_stage(quest_id, quest, instance, target_stage_id,
                                   qs, gs)

RECURSIVE ActiveIdsOf(_)
ActiveIdsOf(qs) ==
    IF qs = <<>> THEN <<>>
    ELSE (IF Head(qs).status = "active" THEN <<Head(qs).quest_id>> ELSE <<>>)
         \o ActiveIdsOf(Tail(qs))

get_active_quests(qs) == ActiveIdsOf(qs)

----------------------------------------------------------------------------
(* StoryDirector *)

\* A trigger is a Python expression given to eval(); the triggers of this
\* world are conjunctions of comparisons  name op literal  (<<>> is the
\* empty trigger)
Atom(var, op, value) == [var |-> var, op |-> op, value |-> value]

StoryBeat(id, trigger, priority, once) ==
    [id |-> id, trigger |-> trigger, priority |-> priority, once |-> once]

ArcBeats ==
    <<StoryBeat("late", <<Atom("turn", ">=", VInt(3))>>, 3, FALSE),
      StoryBeat("park_talk", <<Atom("location", "==", VStr("park"))>>, 2,
                TRUE),
      StoryBeat("park_walk", <<Atom("location", "==", VStr("park"))>>, 2,
                FALSE),
      StoryBeat("confession", <<Atom("stella_affinity", ">=", VInt(3)),
                                Atom("turn", ">=", VInt(1))>>, 1, TRUE),
      StoryBeat("secret", <<Atom("kissed", "==", VBool(TRUE))>>, 1, TRUE)>>

BeatIds == {ArcBeats[i].id : i \in 1..Len(ArcBeats)}

\* the evaluation context built from the game state; "time" is an enum
\* member there and no trigger of this arc names it
TriggerContext(gs) ==
    LET base == [turn |-> VInt(gs.turn_count),
                 turn_count |-> VInt(gs.turn_count),
                 location |-> VStr(gs.current_location),
                 companion |-> VStr(gs.active_companion)]
        aff1 == [k \in {Lower(c) \o "_affinity" : c \in DOMAIN gs.affinity}
                   |-> VInt(gs.affinity[CHOOSE c \in DOMAIN gs.affinity :
                                           Lower(c) \o "_affinity" = k])]
        aff2 == [k \in {"affinity_" \o Lower(c) : c \in DOMAIN gs.affinity}
                   |-> VInt(gs.affinity[CHOOSE c \in DOMAIN gs.affinity :
                                           "affinity_" \o Lower(c) = k])]
    IN [k \in DOMAIN base \cup DOMAIN aff1 \cup DOMAIN aff2
              \cup DOMAIN gs.quest_flags |->
          IF k \in DOMAIN gs.quest_flags THEN gs.quest_flags[k]
          ELSE IF k \in DOMAIN aff2 THEN aff2[k]
          ELSE IF k \in DOMAIN aff1 THEN aff1[k]
          ELSE base[k]]

\* one comparison; a NameError or TypeError makes the whole trigger False
AtomOk(atom, context) ==
    /\ atom.var \in DOMAIN context
    /\ LET v == context[atom.var]
       IN atom.op = "==" \/ (IsNum(v) = IsNum(atom.value))
AtomValue(atom, context) ==
    LET v == context[atom.var]
    IN CASE atom.op = "==" ->
              IF IsNum(v) /\ IsNum(atom.value) THEN v.n = atom.value.n
              ELSE IF ~IsNum(v) /\ ~IsNum(atom.value) THEN v.s = atom.value.s
              ELSE FALSE
         [] atom.op = ">=" ->
              IF IsNum(v) THEN v.n >= atom.value.n
              ELSE StrRank(v.s) >= StrRank(atom.value.s)
         [] OTHER -> FALSE

\* a and b and ...: evaluated left to right, stops at the first false one
RECURSIVE EvalAnd(_, _)
EvalAnd(trigger, context) ==
    IF trigger = <<>> THEN TRUE
    ELSE IF ~AtomOk(Head(trigger), context) THEN FALSE
    ELSE IF ~AtomValue(Head(trigger), context) THEN FALSE
    ELSE EvalAnd(Tail(trigger), context)

_evaluate_trigger(trigger, gs) ==
    IF trigger = <<>> THEN TRUE ELSE EvalAnd(trigger, TriggerContext(gs))

RECURSIVE CandidatesFrom(_, _, _)
CandidatesFrom(beats, gs, completed) ==
    IF beats = <<>> THEN <<>>
    ELSE LET beat == Head(beats)
             rest == CandidatesFrom(Tail(beats), gs, completed)
         IN IF beat.once /\ beat.id \in completed THEN rest
            ELSE IF _evaluate_trigger(beat.trigger, gs)
            THEN <<beat>> \o rest
            ELSE rest

\* a sort that puts b before the elements of equal priority
RECURSIVE InsertByPriorityUnstable(_, _)
InsertByPriorityUnstable(sorted, b) ==
    IF sorted = <<>> THEN <<b>>
    ELSE IF Head(sorted).priority < b.priority
    THEN <<Head(sorted)>> \o InsertByPriorityUnstable(Tail(sorted), b)
    ELSE <<b>> \o sorted

\* insert b after every element whose priority is not greater
RECURSIVE InsertByPriority(_, _)
InsertByPriority(sorted, b) ==
    IF sorted = <<>> THEN <<b>>
    ELSE IF Head(sorted).priority <= b.priority
    THEN <<Head(sorted)>> \o InsertByPriority(Tail(sorted), b)
    ELSE <<b>> \o sorted

\* candidates.sort(key=lambda b: b.priority): list.sort is stable
RECURSIVE SortByPriority(_)
SortByPriority(candidates) ==
    IF candidates = <<>> THEN <<>>
    ELSE InsertByPriority(
             SortByPriority(SubSeq(candidates, 1, Len(candidates) - 1)),
             candidates[Len(candidates)])

\* id of the selected beat, "" for None
get_active_instruction(gs, completed) ==
    LET candidates == CandidatesFrom(ArcBeats, gs, completed)
    IN IF candidates = <<>> THEN ""
       ELSE SortByPriority(candidates)[1].id

BeatOf(id) == ArcBeats[CHOOSE i \in 1..Len(ArcBeats) : ArcBeats[i].id = id]

----------------------------------------------------------------------------
(* GameEngine helpers *)

\* StateUpdate as proposed by the provider; "" and the empty dict are absent
StateUpdate(affinity_change, current_outfit, location, time_of_day, set_flags, npc_emotion) ==
    [affinity_change |-> affinity_change, current_outfit |-> current_outfit,
     location |-> location, time_of_day |-> time_of_day,
     set_flags |-> set_flags, npc_emotion |-> npc_emotion]

EmptyDict == [x \in {} |-> 0]
NoUpdates == StateUpdate(EmptyDict, "", "", "", EmptyDict, "")

\* the proposals a provider makes in this model
Proposals ==
    <<StateUpdate([Luna |-> 8], "armor", "moon", "", EmptyDict, ""),
      StateUpdate([Luna |-> -8, Nobody |-> 3], "", "park", "Night",
                  [kissed |-> VBool(TRUE)], ""),
      StateUpdate([Stella |-> 3], "gym", "moon", "Dusk",
                  [kissed |-> VBool(TRUE)], "happy")>>

\* no clamp
AffinityNoClamp(delta) == delta
\* the clamp to the per-turn maximum
AffinityClamp(delta) == Max(-5, Min(5, delta))

_validate_updates(updates, gs) ==
    [affinity_change |->
        [char \in {c \in DOMAIN updates.affinity_change :
                      c \in DOMAIN gs.affinity} |->
            AffinityClamp(updates.affinity_change[char])],
     current_outfit |->
        IF updates.current_outfit # ""
           /\ gs.active_companion \in DOMAIN Wardrobe
           /\ updates.current_outfit \in Wardrobe[gs.active_companion]
        THEN updates.current_outfit ELSE "",
     location |->
        IF updates.location # "" /\ updates.location \in LocationIds
        THEN updates.location ELSE "",
     time_of_day |-> updates.time_of_day,
     set_flags |-> updates.set_flags,
     npc_emotion |-> updates.npc_emotion]

\* for char, delta in d.items(): change_affinity(char, delta)
RECURSIVE ApplyAffinity(_, _, _)
ApplyAffinity(d, todo, gs) ==
    IF todo = {} THEN gs
    ELSE LET char == CHOOSE c \in todo : TRUE
         IN ApplyAffinity(d, todo \ {char},
                          change_affinity(gs, char, d[char], TRUE))

\* for key, value in d.items(): set_flag(key, value)
RECURSIVE ApplyFlags(_, _, _)
ApplyFlags(d, todo, gs) ==
    IF todo = {} THEN gs
    ELSE LET key == CHOOSE k \in todo : TRUE
         IN ApplyFlags(d, todo \ {key}, set_flag(gs, key, d[key]))

\* TimeOfDay(value) raises ValueError for a value that is no member
TimeOfDayConverts(value) == value \in TimeOfDayValues

\* [raised, gs]: gs is the state when the method returned or raised
_apply_updates(updates, gs) ==
    LET g1 == ApplyAffinity(updates.affinity_change,
                            DOMAIN updates.affinity_change, gs)
        g2 == IF updates.current_outfit # ""
              THEN set_outfit_style(g1, updates.current_outfit) ELSE g1
        g3 == IF updates.location # ""
              THEN set_location(g2, updates.location) ELSE g2
    IN IF updates.time_of_day # "" /\ ~TimeOfDayConverts(updates.time_of_day)
       THEN [raised |-> TRUE, gs |-> g3]
       ELSE LET g4 == IF updates.time_of_day # ""
                      THEN set_time(g3, updates.time_of_day) ELSE g3
                g5 == ApplyFlags(updates.set_flags, DOMAIN updates.set_flags,
                                 g4)
                g6 == IF updates.npc_emotion # ""
                      THEN update_npc_emotion(g5, gs.active_companion,
                                              updates.npc_emotion)
                      ELSE g5
            IN [raised |-> FALSE, gs |-> g6]

\* Player inputs: sequences of lower-case words
MovementWords == {"vado", "vai", "andiamo", "muoviti", "spostati", "entra",
                  "entriamo", "uscire", "uscite", "raggiungi",
                  "raggiungiamo", "torniamo", "torna"}

UserInputs == {<<"ciao">>, <<"addio">>, <<"vado", "park">>,
               <<"vado", "roof">>, <<"vado", "via">>}

\* LocationManager.get_visible_locations
get_visible_locations(gs) ==
    IF gs.current_location \notin LocationIds THEN <<>>
    ELSE SelectSeq(LocationOrder,
                   LAMBDA l : /\ l # gs.current_location
                              /\ l \in Locations[gs.current_location]
                                          .connected_to)

\* LocationManager.can_move_to
can_move_to(target_id, gs) ==
    /\ target_id \in LocationIds
    /\ target_id # gs.current_location
    /\ target_id \in Range(get_visible_locations(gs))

\* id named by the words left of the command, "" for None
ResolveTarget(target_words, gs) ==
    IF Len(target_words) = 1 /\ target_words[1] \in LocationIds
    THEN target_words[1]
    ELSE LET visible == SelectSeq(get_visible_locations(gs),
                                  LAMBDA l : l \in Range(target_words))
         IN IF visible = <<>> THEN "" ELSE visible[1]

\* [handled, success, gs]
_check_and_handle_movement(user_input, gs) ==
    LET is_movement == \E i \in 1..(Len(user_input) - 1) :
                          user_input[i] \in MovementWords
        target_words == SelectSeq(user_input,
                                  LAMBDA w : w \notin MovementWords)
        target_id == ResolveTarget(target_words, gs)
    IN IF ~is_movement \/ target_id = ""
       THEN [handled |-> FALSE, success |-> FALSE, gs |-> gs]
       ELSE IF can_move_to(target_id, gs)
       THEN [handled |-> TRUE, success |-> TRUE,
             gs |-> [gs EXCEPT !.current_location = target_id]]
       ELSE [handled |-> TRUE, success |-> FALSE, gs |-> gs]

\* for quest_id in activated: activate_quest(quest_id, game_state)
RECURSIVE ActivateAll(_, _, _)
ActivateAll(activated, qs, gs) ==
    IF activated = <<>> THEN [qs |-> qs, gs |-> gs]
    ELSE LET r == activate_quest(Head(activated), qs, gs)
         IN ActivateAll(Tail(activated), r.qs, r.gs)

\* for quest_id in get_active_quests(): process_turn(quest_id, ...)
RECURSIVE ProcessAll(_, _, _, _)
ProcessAll(ids, qs, gs, user_input) ==
    IF ids = <<>> THEN [qs |-> qs, gs |-> gs]
    ELSE LET r == quest_process_turn(Head(ids), qs, gs, user_input)
         IN ProcessAll(Tail(ids), r.qs, r.gs, user_input)

\* step 3 of process_turn
QuestStep(qs, gs, user_input) ==
    LET a == ActivateAll(check_activations(qs, gs), qs, gs)
    IN ProcessAll(get_active_quests(a.qs), a.qs, a.gs, user_input)

----------------------------------------------------------------------------
(* State after GameEngine.initialize of a new game *)

\* StateManager.create_new
InitGameState ==
    [turn_count |-> 0, current_location |-> "classroom",
     time_of_day |-> "Morning", active_companion |-> "Luna",
     companion_outfit |-> "default",
     affinity |-> [c \in CompanionSet |-> 0],
     flags |-> EmptyDict, quest_flags |-> EmptyDict,
     active_quests |-> <<>>, completed_quests |-> <<>>,
     npc_states |-> EmptyDict]

\* WorldState and quest instances as one value
Snap(gs, qs) == [gs |-> gs, qs |-> qs]

\* the rows one `async with self.db.session()` block wrote when it committed
Committed(t, rows) == [t EXCEPT !.tx = Append(t.tx, rows)]

\* a process_turn coroutine: pc is the await it is suspended at, tx the
\* transactions it has committed
NewTurn ==
    [pc |-> "start", beat |-> "", provider |-> "",
     proposal |-> NoUpdates, validated |-> NoUpdates,
     pre |-> Snap(InitGameState, <<>>), overlapped |-> FALSE, tx |-> <<>>]

\* number of process_turn coroutines that have not returned
InFlight == BagCardinality(turns)

\* what the caller of process_turn got: a TurnResult or an exception
\* (proposal is the StateUpdate of the response the turn worked on)
Outcome(kind, text, exc, provider_used, turn_number, t) ==
    [kind |-> kind, text |-> text, exc |-> exc,
     provider_used |-> provider_used, turn_number |-> turn_number,
     affinity_changes |-> t.validated.affinity_change,
     proposal |-> t.proposal, tx |-> t.tx]

NoOutcome == Outcome("none", "", "", "", 0, NewTurn)

\* provider strings of the clients
GeminiProvider == "gemini/gemini-2.0-flash"
MoonshotProvider == "moonshot/kimi-k2.5"
MockProvider == "mock"

\* the responses generate hands to the turn: the mock proposes no update
Responses ==
    {[provider |-> GeminiProvider, updates |-> Proposals[i]] :
        i \in 1..Len(Proposals)}
    \cup {[provider |-> MockProvider, updates |-> NoUpdates]}

\* every N-th turn the deep personality pass awaits the provider
llm_analysis_interval == 3

\* no call of the StoryDirector made yet
DirIdle ==
    [called |-> FALSE, gs |-> InitGameState, completed |-> {},
     selected |-> ""]

\* no QuestEngine.process_turn call made yet
QuestIdle ==
    [called |-> FALSE, quest_id |-> "", user_input |-> <<>>,
     pre |-> Snap(InitGameState, <<>>), result |-> NoUpdate(<<>>, InitGameState)]

\* MemoryManager.__init__ of a new session
MemIdle == [log |-> <<>>, summaries |-> <<>>, calls |-> EmptyBag, next |-> 1]

\* the result of _parse_response or of the client's generate: a response
\* (text, location of its updates, "" when the updates are empty) or an
\* exception
Parsed(raised, text, location, provider) == [raised |-> raised, text |-> text, location |-> location, provider |-> provider]

\* no generate call of a provider client made yet
ParseIdle == [pc |-> "idle", client |-> "", attempt |-> 0, parsed |-> <<>>, result |-> Parsed(FALSE, "", "", "")]

\* nothing observed on its own yet
SearchIdle == [pc |-> "idle"]
ValidationIdle == [pc |-> "idle"]
MediaIdle == [pc |-> "idle"]
SessionIdle == [pc |-> "idle"]
PersonalityIdle == [pc |-> "idle"]
EvaluationIdle == [pc |-> "idle"]
SidesIdle == session = SessionIdle /\ personality = PersonalityIdle /\ evaluation = EvaluationIdle
ProbesIdle == search = SearchIdle /\ validation = ValidationIdle /\ media = MediaIdle /\ SidesIdle
CallsIdle == quest_call = QuestIdle /\ memory = MemIdle /\ parse = ParseIdle /\ ProbesIdle

Init ==
    /\ game_state = InitGameState
    /\ active_states = <<>>
    /\ beat_completed = {}
    /\ beat_history = <<>>
    /\ recent_messages = 0
    /\ turns = EmptyBag
    /\ started = 0
    /\ btn_send_enabled = TRUE
    /\ last_result = NoOutcome
    /\ gen = [pc |-> "unused"]
    /\ dir = DirIdle
    /\ CallsIdle

\* the coroutines that were running when another one started are overlapped
MarkOverlapped(ts) ==
    [u \in {[t EXCEPT !.overlapped = TRUE] : t \in BagToSet(ts)} |->
        CopiesIn(u, ts) + CopiesIn([u EXCEPT !.overlapped = FALSE], ts)]

\* the coroutine t goes on to its next await as t2
Suspend(t, t2) == (turns (-) SetToBag({t})) (+) SetToBag({t2})

\* _on_send up to the first await that suspends: steps 0 to 4 of process_turn
StartTurn(user_input) ==
    /\ started < MaxTurns
    /\ InFlight < MaxInFlight
    /\ started' = started + 1
    /\ LET t0 == [NewTurn EXCEPT !.pre = Snap(game_state, active_states),
                                 !.overlapped = (InFlight > 0)]
           mv == _check_and_handle_movement(user_input, game_state)
       IN IF mv.handled
          THEN /\ game_state' = mv.gs
               /\ last_result' =
                    IF mv.success
                    THEN Outcome("exception", "", "AttributeError", "", 0,
                                 t0)
                    ELSE Outcome("result", "blocked", "", "system",
                                 game_state.turn_count, t0)
               /\ turns' = MarkOverlapped(turns)
               /\ btn_send_enabled' = TRUE
               /\ UNCHANGED active_states
          ELSE LET beat == get_active_instruction(game_state, beat_completed)
                   q == QuestStep(active_states, game_state, user_input)
               IN /\ game_state' = q.gs
                  /\ active_states' = q.qs
                  /\ turns' = MarkOverlapped(turns)
                                (+) SetToBag({[t0 EXCEPT !.pc = "generate",
                                                         !.beat = beat]})
                  /\ btn_send_enabled' = FALSE
                  /\ UNCHANGED last_result
    /\ UNCHANGED <<recent_messages, beat_completed, beat_history, gen, dir, callVars>>

\* btn_send.clicked: a disabled button emits no click
OnSendClicked ==
    /\ btn_send_enabled
    /\ \E user_input \in UserInputs : StartTurn(user_input)

\* txt_input.isEnabled(): nothing ever disables the line edit
txt_input_enabled == TRUE

\* txt_input.returnPressed
OnReturnPressed ==
    /\ txt_input_enabled
    /\ \E user_input \in UserInputs : StartTurn(user_input)

\* the coroutine t ends: the finally clause of _on_send runs
EndTurn(t, outcome) ==
    /\ turns' = turns (-) SetToBag({t})
    /\ last_result' = outcome
    /\ btn_send_enabled' = TRUE

\* step 5: llm_manager.generate returns or raises
GenerateDone(t) ==
    /\ t.pc = "generate"
    /\ \/ \* every provider failed: the error TurnResult is returned
          /\ EndTurn(t, Outcome("result", "error", "", "",
                                game_state.turn_count, t))
          /\ UNCHANGED recent_messages
       \/ \* a response; the user message is appended, then the insert awaits
          \E llm_response \in Responses :
             /\ turns' = Suspend(t, [t EXCEPT
                                       !.pc = "mem_user",
                                       !.provider = llm_response.provider,
                                       !.proposal = llm_response.updates])
             /\ recent_messages' = recent_messages + 1
             /\ UNCHANGED <<last_result, btn_send_enabled>>
    /\ UNCHANGED <<game_state, active_states, started, beat_completed,
                   beat_history, gen, dir, callVars>>

\* memory_manager.add_message(role="user") returned; the assistant message
\* is appended, then its insert awaits
MemUserDone(t) ==
    /\ t.pc = "mem_user"
    /\ turns' = Suspend(t, [Committed(t, {"message_user"})
                               EXCEPT !.pc = "mem_assistant"])
    /\ recent_messages' = recent_messages + 1
    /\ UNCHANGED <<game_state, active_states, started, btn_send_enabled,
                   last_result, beat_completed, beat_history, gen, dir, callVars>>

\* steps 6 and 7, up to the await of the save in step 9
MemAssistantDone(t) ==
    /\ t.pc = "mem_assistant"
    /\ LET validated == _validate_updates(t.proposal, game_state)
           r == _apply_updates(validated, game_state)
           t1 == [Committed(t, {"message_assistant"})
                    EXCEPT !.validated = validated]
       IN IF t.beat # ""
          THEN \* the coroutine of validate_beat_execution is unpacked
               /\ EndTurn(t, Outcome("exception", "", "TypeError", "", 0,
                                     t1))
               /\ UNCHANGED game_state
          ELSE IF r.raised
          THEN /\ game_state' = r.gs
               /\ EndTurn(t, Outcome("exception", "", "ValueError", "", 0,
                                     t1))
          ELSE /\ game_state' = advance_turn(r.gs)
               /\ turns' = Suspend(t, [t1 EXCEPT !.pc = "save"])
               /\ UNCHANGED <<last_result, btn_send_enabled>>
    /\ UNCHANGED <<active_states, recent_messages, started, beat_completed,
                   beat_history, gen, dir, callVars>>

\* the TurnResult of a turn that ran to its end
Narrative(t) ==
    Outcome("result", "narrative", "", t.provider, game_state.turn_count, t)

\* step 9 returned; step 10 awaits the provider on every N-th turn only
SaveDone(t) ==
    /\ t.pc = "save"
    /\ LET t1 == Committed(t, {"world_state", "quest_states"})
       IN IF game_state.turn_count % llm_analysis_interval = 0
          THEN /\ turns' = Suspend(t, [t1 EXCEPT !.pc = "deep"])
               /\ UNCHANGED <<last_result, btn_send_enabled>>
          ELSE EndTurn(t, Narrative(t1))
    /\ UNCHANGED <<game_state, active_states, recent_messages, started,
                   beat_completed, beat_history, gen, dir, callVars>>

\* analyze_with_llm returned
DeepDone(t) ==
    /\ t.pc = "deep"
    /\ EndTurn(t, Narrative(t))
    /\ UNCHANGED <<game_state, active_states, recent_messages, started,
                   beat_completed, beat_history, gen, dir, callVars>>

Next ==
    \/ OnSendClicked
    \/ OnReturnPressed
    \/ \E t \in BagToSet(turns) : GenerateDone(t)
    \/ \E t \in BagToSet(turns) : MemUserDone(t)
    \/ \E t \in BagToSet(turns) : MemAssistantDone(t)
    \/ \E t \in BagToSet(turns) : SaveDone(t)
    \/ \E t \in BagToSet(turns) : DeepDone(t)

Spec == Init /\ [][Next]_vars

----------------------------------------------------------------------------
(* LLMManager.generate with the clients as its environment.  A client call   *)
(* returns a response or raises; the shipped Gemini and Moonshot clients     *)
(* turn their own failures into "[Error: ...]" responses.                    *)

\* stop_after_attempt(3)
RetryAttempts == 3
\* len(response.text.strip()) < 5
MinTextLen == 5
\* MockLLMClient() as the manager builds it: fail_rate, in percent
MockFailRate == 0

\* a response text: its length, its length after strip(), and whether it
\* starts with "[Error:"
Text(len, stripped, marker) ==
    [len |-> len, stripped |-> stripped, marker |-> marker]

TextEmpty == Text(0, 0, FALSE)
TextBlank == Text(3, 0, FALSE)
TextShort == Text(6, 4, FALSE)
TextMin == Text(5, 5, FALSE)
TextNarrative == Text(90, 90, FALSE)
\* BaseLLMClient._create_error_response
TextError == Text(27, 27, TRUE)

ClientTexts == {TextEmpty, TextBlank, TextShort, TextMin, TextNarrative,
                TextError}

LLMResponse(text, provider) == [text |-> text, provider |-> provider]
NoResponse == LLMResponse(TextEmpty, "")

\* a validity test that accepts everything
_is_valid_response_always(response) == TRUE
\* a validity test that accepts nothing
_is_valid_response_never(response) == FALSE
_is_valid_response(response) ==
    IF response.text.len = 0 THEN FALSE
    ELSE IF response.text.marker THEN FALSE
    ELSE IF response.text.stripped < MinTextLen THEN FALSE
    ELSE TRUE

\* values of random.random(), in percent
RandomRolls == {0, 50, 99}

\* MockLLMClient.generate
mock_generate(roll) ==
    IF roll < MockFailRate THEN LLMResponse(TextError, MockProvider)
    ELSE LLMResponse(TextNarrative, MockProvider)

ProviderOf(stage) ==
    IF stage = "primary" THEN GeminiProvider ELSE MoonshotProvider

\* where generate goes on after the fallback block
AfterFallback(cfg) == IF cfg.mock THEN "mock" ELSE "raised"
\* where generate goes on after the primary block
AfterPrimary(cfg) == IF cfg.fallback THEN "fallback" ELSE AfterFallback(cfg)
\* a generate that asks the same provider again
AfterStageAgain(stage, cfg) == stage
AfterStage(stage, cfg) ==
    IF stage = "primary" THEN AfterPrimary(cfg) ELSE AfterFallback(cfg)

\* llm_response.provider or "unknown", always "unknown"
provider_always_unknown(provider) == "unknown"
\* llm_response.provider or "unknown"
provider_or_unknown(provider) ==
    IF provider = "" THEN "unknown" ELSE provider

GenIdle(cfg) ==
    [pc |-> "idle", cfg |-> cfg, use_mock |-> FALSE, attempt |-> 1,
     invoked |-> <<>>, response |-> NoResponse, provider_used |-> "",
     error |-> FALSE]

\* _init_clients: each client exists or not
GenInit ==
    /\ gen \in {GenIdle([primary |-> a, fallback |-> b, mock |-> c]) :
                   a \in BOOLEAN, b \in BOOLEAN, c \in BOOLEAN}
    /\ game_state = InitGameState
    /\ active_states = <<>>
    /\ beat_completed = {}
    /\ beat_history = <<>>
    /\ recent_messages = 0
    /\ turns = EmptyBag
    /\ started = 0
    /\ btn_send_enabled = TRUE
    /\ last_result = NoOutcome
    /\ dir = DirIdle
    /\ CallsIdle

GenUnchanged ==
    UNCHANGED <<game_state, active_states, beat_completed, beat_history,
                recent_messages, turns, started, btn_send_enabled,
                last_result, dir, callVars>>

\* generate is called: up to the first client call
GenCall(use_mock) ==
    /\ gen.pc = "idle"
    /\ gen' = [gen EXCEPT
                 !.use_mock = use_mock,
                 !.pc = IF use_mock /\ gen.cfg.mock THEN "mock"
                        ELSE IF gen.cfg.primary THEN "primary"
                        ELSE AfterPrimary(gen.cfg)]
    /\ GenUnchanged

\* client.generate returns a response
GenClientReturns(text) ==
    /\ gen.pc \in {"primary", "fallback"}
    /\ LET result == LLMResponse(text, ProviderOf(gen.pc))
           call == [client |-> gen.pc, outcome |-> "response",
                    text |-> text]
       IN gen' = IF _is_valid_response(result)
                 THEN [gen EXCEPT !.pc = "returned", !.response = result,
                                  !.invoked = Append(@, call),
                                  !.attempt = 1]
                 ELSE [gen EXCEPT !.pc = AfterStage(gen.pc, gen.cfg),
                                  !.invoked = Append(@, call),
                                  !.attempt = 1]
    /\ GenUnchanged

\* client.generate raises httpx.HTTPError or ConnectionError: retried, and
\* re-raised into the except clause of generate after the last attempt
GenClientTransportError ==
    /\ gen.pc \in {"primary", "fallback"}
    /\ LET call == [client |-> gen.pc, outcome |-> "transport",
                    text |-> TextEmpty]
       IN gen' = IF gen.attempt < RetryAttempts
                 THEN [gen EXCEPT !.attempt = @ + 1,
                                  !.invoked = Append(@, call)]
                 ELSE [gen EXCEPT !.pc = AfterStage(gen.pc, gen.cfg),
                                  !.invoked = Append(@, call),
                                  !.attempt = 1]
    /\ GenUnchanged

\* client.generate raises another exception: not retried
GenClientOtherError ==
    /\ gen.pc \in {"primary", "fallback"}
    /\ gen' = [gen EXCEPT
                 !.pc = AfterStage(gen.pc, gen.cfg),
                 !.invoked = Append(@, [client |-> gen.pc,
                                        outcome |-> "other",
                                        text |-> TextEmpty]),
                 !.attempt = 1]
    /\ GenUnchanged

\* the mock's response is returned as it is
GenMock(roll) ==
    /\ gen.pc = "mock"
    /\ LET result == mock_generate(roll)
       IN gen' = [gen EXCEPT
                    !.pc = "returned", !.response = result,
                    !.invoked = Append(@, [client |-> "mock",
                                           outcome |-> "response",
                                           text |-> result.text])]
    /\ GenUnchanged

\* step 5 of process_turn takes the response or the RuntimeError
GenTurnContinues ==
    /\ gen.pc \in {"returned", "raised"}
    /\ gen' = IF gen.pc = "returned"
              THEN [gen EXCEPT
                      !.pc = "done",
                      !.provider_used =
                          provider_or_unknown(gen.response.provider)]
              ELSE [gen EXCEPT !.pc = "done", !.error = TRUE]
    /\ GenUnchanged

GenNext ==
    \/ \E use_mock \in BOOLEAN : GenCall(use_mock)
    \/ \E text \in ClientTexts : GenClientReturns(text)
    \/ GenClientTransportError
    \/ GenClientOtherError
    \/ \E roll \in RandomRolls : GenMock(roll)
    \/ GenTurnContinues

GenSpec == GenInit /\ [][GenNext]_vars

\* every awaited client call ends: it returns or raises (the clients give
\* their requests a timeout), and the caller of generate takes its outcome
GenLiveSpec == GenInit /\ [][GenNext]_vars /\ WF_vars(GenNext)

----------------------------------------------------------------------------
(* The StoryDirector on its own: selection and completion of beats *)

\* the WorldStates the director is asked about
DirStates ==
    {[InitGameState EXCEPT !.turn_count = t, !.current_location = l,
                           !.affinity["Stella"] = a, !.quest_flags = f] :
        t \in 0..MaxDirTurn, l \in LocationIds, a \in {0, 3},
        f \in {EmptyDict, [kissed |-> VBool(TRUE)]}}

DirInit ==
    /\ dir = DirIdle
    /\ beat_completed = {}
    /\ beat_history = <<>>
    /\ game_state = InitGameState
    /\ active_states = <<>>
    /\ recent_messages = 0
    /\ turns = EmptyBag
    /\ started = 0
    /\ btn_send_enabled = TRUE
    /\ last_result = NoOutcome
    /\ gen = [pc |-> "unused"]
    /\ CallsIdle

DirUnchanged ==
    UNCHANGED <<game_state, active_states, recent_messages, turns, started,
                btn_send_enabled, last_result, gen, callVars>>

\* get_active_instruction(game_state)
DirGetActiveInstruction(gs) ==
    /\ dir' = [called |-> TRUE, gs |-> gs, completed |-> beat_completed,
               selected |-> get_active_instruction(gs, beat_completed)]
    /\ UNCHANGED <<beat_completed, beat_history>>
    /\ DirUnchanged

\* a completion that is recorded in the history only
mark_beat_completed_forgets(beat_id, completed, history) ==
    [completed |-> completed,
     history |-> Append(history, [beat_id |-> beat_id, completed |-> TRUE])]

\* mark_beat_completed(beat, narrative, quality): one BeatExecution is
\* appended and a once-beat enters _beat_completed
mark_beat_completed(beat_id, completed, history) ==
    [completed |-> IF BeatOf(beat_id).once THEN completed \cup {beat_id}
                   ELSE completed,
     history |-> Append(history, [beat_id |-> beat_id, completed |-> TRUE])]

\* step 6 of the turn that selected the beat: the completion is recorded
\* once for the selection, and the director waits for the next turn
DirMarkBeatCompleted ==
    /\ dir.selected # ""
    /\ Len(beat_history) < MaxBeatHistory
    /\ LET m == mark_beat_completed(dir.selected, beat_completed,
                                    beat_history)
       IN /\ beat_history' = m.history
          /\ beat_completed' = m.completed
    /\ dir' = DirIdle
    /\ DirUnchanged

DirNext ==
    \/ \E gs \in DirStates : DirGetActiveInstruction(gs)
    \/ DirMarkBeatCompleted

DirSpec == DirInit /\ [][DirNext]_vars

----------------------------------------------------------------------------
(* The QuestEngine on its own: process_turn on the quests of one session *)

MaxQuestTurn == 5

QuestInputs == {<<"ciao">>, <<"addio">>}

\* the quest instances and quest lists a session can hold when a turn
\* starts: q1 is activated on the first turn, q2 after q1 is completed, q3
\* by its trigger flag
QuestSituations ==
    {[qs |-> <<QuestInstance("q1", "active", "s1", 0)>>,
      active |-> <<"q1">>, completed |-> <<>>],
     [qs |-> <<QuestInstance("q1", "active", "s2", 0)>>,
      active |-> <<>>, completed |-> <<"q1">>],
     [qs |-> <<[QuestInstance("q1", "completed", "s2", 0)
                   EXCEPT !.completed_at = 0],
               QuestInstance("q2", "active", "t1", 0)>>,
      active |-> <<>>, completed |-> <<"q1">>],
     [qs |-> <<QuestInstance("q1", "active", "s2", 0),
               QuestInstance("q3", "active", "w1", 0)>>,
      active |-> <<>>, completed |-> <<"q1">>],
     [qs |-> <<QuestInstance("q1", "active", "s2", 0),
               QuestInstance("q3", "active", "w2", 0)>>,
      active |-> <<>>, completed |-> <<"q1">>]}

QuestInit ==
    /\ \E sit \in QuestSituations, t \in 0..MaxQuestTurn, a \in {45, 50},
          f \in {EmptyDict, [kissed |-> VBool(TRUE)],
                 [trigger_go4 |-> VBool(TRUE)]} :
          /\ active_states = sit.qs
          /\ game_state = [InitGameState EXCEPT
                              !.turn_count = t,
                              !.affinity["Luna"] = a,
                              !.quest_flags = f,
                              !.active_quests = sit.active,
                              !.completed_quests = sit.completed]
    /\ quest_call = QuestIdle
    /\ memory = MemIdle
    /\ parse = ParseIdle
    /\ ProbesIdle
    /\ beat_completed = {}
    /\ beat_history = <<>>
    /\ recent_messages = 0
    /\ turns = EmptyBag
    /\ started = 0
    /\ btn_send_enabled = TRUE
    /\ last_result = NoOutcome
    /\ gen = [pc |-> "unused"]
    /\ dir = DirIdle

QuestUnchanged ==
    UNCHANGED <<beat_completed, beat_history, recent_messages, turns, started,
                btn_send_enabled, last_result, gen, dir, memory, parse,
                probeVars>>

\* QuestEngine.process_turn(quest_id, game_state, user_input)
QuestProcessTurn(quest_id, user_input) ==
    /\ LET r == quest_process_turn(quest_id, active_states, game_state,
                                   user_input)
       IN /\ active_states' = r.qs
          /\ game_state' = r.gs
    /\ quest_call' = [called |-> TRUE, quest_id |-> quest_id,
                      user_input |-> user_input,
                      pre |-> Snap(game_state, active_states),
                      result |-> quest_process_turn(quest_id, active_states,
                                                    game_state, user_input)]
    /\ QuestUnchanged

\* the turn is over: StateManager.advance_turn
QuestAdvanceTurn ==
    /\ game_state.turn_count < MaxQuestTurn
    /\ game_state' = advance_turn(game_state)
    /\ quest_call' = QuestIdle
    /\ UNCHANGED active_states
    /\ QuestUnchanged

\* check_activations and activate_quest for every quest it returned
QuestCheckActivations ==
    /\ LET a == ActivateAll(check_activations(active_states, game_state),
                            active_states, game_state)
       IN /\ active_states' = a.qs
          /\ game_state' = a.gs
    /\ quest_call' = QuestIdle
    /\ QuestUnchanged

QuestNext ==
    \/ \E quest_id \in QuestIds, user_input \in QuestInputs :
          QuestProcessTurn(quest_id, user_input)
    \/ QuestCheckActivations
    \/ QuestAdvanceTurn

QuestSpec == QuestInit /\ [][QuestNext]_vars

----------------------------------------------------------------------------
(* The MemoryManager on its own: add_message and _compress_history *)

history_limit == 2
MaxMessages == 24
MaxAdders == 2
CompressBatch == 10

\* a threshold that is passed only above history_limit + 10
compress_due_above(log) == Len(log) > history_limit + CompressBatch

\* _compress_history goes on unless len < history_limit + 10
compress_due(log) == ~(Len(log) < history_limit + CompressBatch)

\* self._recent_messages[:10]
to_compress(log) == SubSeq(log, 1, Min(CompressBatch, Len(log)))

\* self._recent_messages[10:]
after_compress(log) == SubSeq(log, CompressBatch + 1, Len(log))

\* the summary row written by db.add_memory
Summary(messages) == [memory_type |-> "summary", importance |-> 3, start_turn |-> messages[1], end_turn |-> messages[Len(messages)], messages |-> Len(messages)]

MemCall(pc, alone, compressing) == [pc |-> pc, alone |-> alone, compressing |-> compressing]

\* the calls in flight when another one starts no longer run alone
MemOverlapped(calls) == [u \in {[c EXCEPT !.alone = FALSE] : c \in BagToSet(calls)} |-> CopiesIn(u, calls) + CopiesIn([u EXCEPT !.alone = TRUE], calls)]

MemInit ==
    /\ memory = MemIdle
    /\ quest_call = QuestIdle
    /\ parse = ParseIdle
    /\ ProbesIdle
    /\ game_state = InitGameState
    /\ active_states = <<>>
    /\ beat_completed = {}
    /\ beat_history = <<>>
    /\ recent_messages = 0
    /\ turns = EmptyBag
    /\ started = 0
    /\ btn_send_enabled = TRUE
    /\ last_result = NoOutcome
    /\ gen = [pc |-> "unused"]
    /\ dir = DirIdle

MemUnchanged ==
    UNCHANGED <<game_state, active_states, beat_completed, beat_history,
                recent_messages, turns, started, btn_send_enabled,
                last_result, gen, dir, quest_call, parse, probeVars>>

\* add_message up to its first await: the message is appended to the cache
\* and the coroutine waits for db.add_message
MemAddMessage ==
    /\ memory.next <= MaxMessages
    /\ BagCardinality(memory.calls) < MaxAdders
    /\ memory' = [memory EXCEPT
                     !.log = Append(@, memory.next),
                     !.next = @ + 1,
                     !.calls = MemOverlapped(@)
                               (+) SetToBag({MemCall("db_add",
                                                     memory.calls = EmptyBag,
                                                     <<>>)})]
    /\ MemUnchanged

\* db.add_message returned: the length check of add_message and the guard
\* of _compress_history; a due compression waits for db.add_memory
MemDbAddDone(c) ==
    /\ c.pc = "db_add"
    /\ memory' = [memory EXCEPT !.calls =
          IF Len(memory.log) > history_limit /\ compress_due(memory.log)
          THEN (@ (-) SetToBag({c}))
               (+) SetToBag({[c EXCEPT !.pc = "db_summary",
                                       !.compressing =
                                           to_compress(memory.log)]})
          ELSE @ (-) SetToBag({c})]
    /\ MemUnchanged

\* db.add_memory returned: the summary row exists, the cache drops its
\* first ten messages and the call ends after delete_old_messages
MemSummaryDone(c) ==
    /\ c.pc = "db_summary"
    /\ memory' = [memory EXCEPT
                     !.summaries = Append(@, Summary(c.compressing)),
                     !.log = after_compress(@),
                     !.calls = @ (-) SetToBag({c})]
    /\ MemUnchanged

MemNext ==
    \/ MemAddMessage
    \/ \E c \in BagToSet(memory.calls) : MemDbAddDone(c)
    \/ \E c \in BagToSet(memory.calls) : MemSummaryDone(c)

MemSpec == MemInit /\ [][MemNext]_vars

----------------------------------------------------------------------------
(* The provider clients on their own: generate and _parse_response *)

\* json.loads(raw): the value and, for the clients, str(value)
NotJson == [t |-> "invalid"]
JsonDict(text, updates) == [t |-> "dict", text |-> text, updates |-> updates]
JsonList(items, str) == [t |-> "list", items |-> items, str |-> str]
JsonScalar(str) == [t |-> "scalar", str |-> str]

\* data.get("updates", {}): absent, a mapping or a truthy value of another
\* type
NoUpdatesKey == [t |-> "absent"]
UpdatesMapping(location) == [t |-> "mapping", location |-> location]
UpdatesOther == [t |-> "other"]

Output(raw, json) == [raw |-> raw, json |-> json]

\* what a provider may send back
ProviderOutputs ==
    {Output("ciao", NotJson),
     Output("{\"text\": \"ciao\", \"updates\": {\"location\": \"park\"}}",
            JsonDict("ciao", UpdatesMapping("park"))),
     Output("{\"text\": \"ciao\"}", JsonDict("ciao", NoUpdatesKey)),
     Output("{\"text\": \"ciao\", \"updates\": [1]}",
            JsonDict("ciao", UpdatesOther)),
     Output("[{\"text\": \"ciao\", \"updates\": {\"location\": \"park\"}}]",
            JsonList(<<JsonDict("ciao", UpdatesMapping("park"))>>, "")),
     Output("[]", JsonList(<<>>, "[]")),
     Output("[true]", JsonList(<<JsonScalar("True")>>, "[True]")),
     Output("42", JsonScalar("42")),
     Output("\"ciao\"", JsonScalar("ciao")),
     Output("null", JsonScalar("None"))}

\* StateUpdate(**updates_data) if updates_data else StateUpdate(): a value
\* that is no mapping cannot be unpacked (TypeError)
UpdatesRaise(updates) == updates.t = "other"
UpdatesLocation(updates) ==
    IF updates.t = "mapping" THEN updates.location ELSE ""

\* the response built from a dict
FromDict(data, provider) ==
    Parsed(FALSE, data.text, UpdatesLocation(data.updates), provider)

\* GeminiClient._parse_response(text, model_used)
gemini_parse_response(output, model_used) ==
    LET provider == "gemini/" \o model_used
        plain == Parsed(FALSE, output.raw, "", provider)
        json == output.json
    IN CASE json.t = "invalid" -> plain
         [] json.t = "list" ->
              IF json.items # <<>> /\ json.items[1].t = "dict"
              THEN IF UpdatesRaise(json.items[1].updates) THEN plain
                   ELSE FromDict(json.items[1], provider)
              ELSE Parsed(FALSE, json.str, "", provider)
         [] json.t = "scalar" -> Parsed(FALSE, json.str, "", provider)
         [] json.t = "dict" ->
              IF UpdatesRaise(json.updates) THEN plain
              ELSE FromDict(json, provider)

\* MoonshotClient._parse_response(text): only json.JSONDecodeError is caught
moonshot_parse_response(output) ==
    LET json == output.json
    IN CASE json.t = "invalid" ->
              Parsed(FALSE, output.raw, "", MoonshotProvider)
         [] json.t \in {"list", "scalar"} ->
              \* data.get raises AttributeError
              Parsed(TRUE, "", "", "")
         [] json.t = "dict" ->
              IF UpdatesRaise(json.updates) THEN Parsed(TRUE, "", "", "")
              ELSE FromDict(json, MoonshotProvider)

\* BaseLLMClient._create_error_response
_create_error_response(provider_name) ==
    Parsed(FALSE, "[Error: ...]", "", provider_name)

GeminiModels == <<"gemini-2.0-flash", "gemini-2.5-pro", "gemini-1.5-pro">>

ParseInit ==
    /\ parse = ParseIdle
    /\ memory = MemIdle
    /\ quest_call = QuestIdle
    /\ ProbesIdle
    /\ game_state = InitGameState
    /\ active_states = <<>>
    /\ beat_completed = {}
    /\ beat_history = <<>>
    /\ recent_messages = 0
    /\ turns = EmptyBag
    /\ started = 0
    /\ btn_send_enabled = TRUE
    /\ last_result = NoOutcome
    /\ gen = [pc |-> "unused"]
    /\ dir = DirIdle

ParseUnchanged ==
    UNCHANGED <<game_state, active_states, beat_completed, beat_history,
                recent_messages, turns, started, btn_send_enabled,
                last_result, gen, dir, quest_call, memory, probeVars>>

\* the call of _parse_response on an output, as the client sees it
ParseCall(output, r) == [output |-> output, result |-> r]

\* GeminiClient.generate is called
GeminiGenerate ==
    /\ parse.pc = "idle"
    /\ parse' = [parse EXCEPT !.pc = "gemini", !.client = "gemini",
                              !.attempt = 1]
    /\ ParseUnchanged

\* generate_content of the current model returned text: it is parsed and
\* the response returned
GeminiModelReturns(output) ==
    /\ parse.pc = "gemini"
    /\ LET r == gemini_parse_response(output, GeminiModels[parse.attempt])
       IN parse' = [parse EXCEPT !.pc = "done",
                                 !.parsed = Append(@, ParseCall(output, r)),
                                 !.result = r]
    /\ ParseUnchanged

\* generate_content raised or returned no text: the next model is tried,
\* after the last one the error response is returned
GeminiModelFails ==
    /\ parse.pc = "gemini"
    /\ parse' = IF parse.attempt < Len(GeminiModels)
                THEN [parse EXCEPT !.attempt = @ + 1]
                ELSE [parse EXCEPT !.pc = "done",
                                   !.result = _create_error_response("gemini")]
    /\ ParseUnchanged

\* MoonshotClient.generate is called
MoonshotGenerate(json_mode) ==
    /\ parse.pc = "idle"
    /\ parse' = [parse EXCEPT
                    !.pc = IF json_mode THEN "json_mode" ELSE "text_mode",
                    !.client = "moonshot", !.attempt = 1]
    /\ ParseUnchanged

\* _generate_json got a completion: an exception of _parse_response is
\* caught by generate, which goes on in text mode
MoonshotJsonReturns(output) ==
    /\ parse.pc = "json_mode"
    /\ LET r == moonshot_parse_response(output)
       IN parse' = [parse EXCEPT
                       !.pc = IF r.raised THEN "text_mode" ELSE "done",
                       !.attempt = IF r.raised THEN 2 ELSE @,
                       !.parsed = Append(@, ParseCall(output, r)),
                       !.result = IF r.raised THEN @ ELSE r]
    /\ ParseUnchanged

\* the request of _generate_json failed
MoonshotJsonFails ==
    /\ parse.pc = "json_mode"
    /\ parse' = [parse EXCEPT !.pc = "text_mode", !.attempt = 2]
    /\ ParseUnchanged

\* _generate_text got a completion: an exception of _parse_response becomes
\* the error response
MoonshotTextReturns(output) ==
    /\ parse.pc = "text_mode"
    /\ LET r == moonshot_parse_response(output)
       IN parse' = [parse EXCEPT
                       !.pc = "done",
                       !.parsed = Append(@, ParseCall(output, r)),
                       !.result = IF r.raised
                                  THEN _create_error_response("moonshot")
                                  ELSE r]
    /\ ParseUnchanged

\* the request of _generate_text failed
MoonshotTextFails ==
    /\ parse.pc = "text_mode"
    /\ parse' = [parse EXCEPT !.pc = "done",
                              !.result = _create_error_response("moonshot")]
    /\ ParseUnchanged

ParseNext ==
    \/ GeminiGenerate
    \/ \E output \in ProviderOutputs : GeminiModelReturns(output)
    \/ GeminiModelFails
    \/ \E json_mode \in BOOLEAN : MoonshotGenerate(json_mode)
    \/ \E output \in ProviderOutputs : MoonshotJsonReturns(output)
    \/ MoonshotJsonFails
    \/ \E output \in ProviderOutputs : MoonshotTextReturns(output)
    \/ MoonshotTextFails

ParseSpec == ParseInit /\ [][ParseNext]_vars

----------------------------------------------------------------------------
(* Properties of the turn loop *)

ClampTo(lo, hi, x) == IF x < lo THEN lo ELSE IF x > hi THEN hi ELSE x

Completed(quest_id) ==
    /\ HasInstance(active_states, quest_id)
    /\ InstanceOf(active_states, quest_id).status = "completed"

\* C1: from a new session, after any sequence of turns (provider proposals,
\* quest on_enter and reward actions), every affinity value of the
\* WorldState lies within [0, 100].  Beat consequences are never applied by
\* process_turn: the turn ends in MemAssistantDone before reaching them.
C1_AffinityInRange ==
    \A c \in DOMAIN game_state.affinity :
        game_state.affinity[c] >= 0 /\ game_state.affinity[c] <= 100

\* the reward of q1 (+60 on top of 50 or more, -10 on top of 0) was clamped
\* at both ends
C1_Witness ==
    /\ Completed("q1")
    /\ game_state.affinity["Luna"] = 100
    /\ game_state.affinity["Stella"] = 0

\* C2: for one session no two process_turn executions are in flight at the
\* same time.
C2_OneTurnInFlight == InFlight <= 1

\* C3: when generation fails the turn is aborted with no state mutation:
\* WorldState and all quest instances are exactly as they were when
\* process_turn was called (turns that ran alone).
C3_FailedTurnLeavesState ==
    [][\A t \in BagToSet(turns) :
          (/\ t.pc = "generate"
           /\ turns' = turns (-) SetToBag({t})
           /\ ~t.overlapped)
          => Snap(game_state', active_states') = t.pre]_vars

\* C4: the validated updates of a turn are applied as an atomic batch: when
\* applying them raises, none of them remains in the WorldState; otherwise
\* all of them are applied.
C4_AtomicBatch ==
    [][\A t \in BagToSet(turns) :
          /\ (/\ t.pc = "mem_assistant"
              /\ turns' = turns (-) SetToBag({t})
              /\ last_result'.exc = "ValueError")
             => game_state' = game_state
          /\ \A t2 \in BagToSet(turns') :
                (/\ t.pc = "mem_assistant"
                 /\ t2.pc = "save"
                 /\ turns' = Suspend(t, t2))
                => LET v == t2.validated
                   IN /\ v.location # ""
                         => game_state'.current_location = v.location
                      /\ v.time_of_day # ""
                         => game_state'.time_of_day = v.time_of_day
                      /\ v.current_outfit # ""
                         => game_state'.companion_outfit = v.current_outfit
                      /\ \A k \in DOMAIN v.set_flags :
                            /\ k \in DOMAIN game_state'.flags
                            /\ game_state'.flags[k] = v.set_flags[k]]_vars

\* C5: no quest id is in both WorldState.active_quests and
\* WorldState.completed_quests, and none appears twice in either list.
C5_QuestListsDisjoint ==
    /\ NoDup(game_state.active_quests)
    /\ NoDup(game_state.completed_quests)
    /\ Range(game_state.active_quests)
         \cap Range(game_state.completed_quests) = {}

\* q1 is completed and its reward tried to start it again, next to q2
C5_Witness ==
    /\ "q1" \in Range(game_state.completed_quests)
    /\ "q2" \in Range(game_state.active_quests)

\* C6: for each companion named in a proposal, the delta that process_turn
\* stores in TurnResult.affinity_changes and passes to the WorldState is the
\* proposed delta clamped to [-5, +5] (the WorldState keeps the sum within
\* [0, 100]).
C6_StoredDeltaClamped ==
    [][\A t \in BagToSet(turns) :
          /\ \A t2 \in BagToSet(turns') :
                (/\ t.pc = "mem_assistant"
                 /\ t2.pc = "save"
                 /\ turns' = Suspend(t, t2))
                => \A c \in DOMAIN t.proposal.affinity_change
                              \cap DOMAIN game_state.affinity :
                      LET d == ClampTo(-5, 5, t.proposal.affinity_change[c])
                      IN /\ c \in DOMAIN t2.validated.affinity_change
                         /\ t2.validated.affinity_change[c] = d
                         /\ game_state'.affinity[c] =
                              ClampTo(0, 100, game_state.affinity[c] + d)
          /\ (/\ t.pc \in {"save", "deep"}
              /\ turns' = turns (-) SetToBag({t}))
             => last_result'.affinity_changes =
                  t.validated.affinity_change]_vars

\* affinity 50, proposal +8: stored +5, final affinity 55
C6_Witness ==
    /\ last_result.text = "narrative"
    /\ "Luna" \in DOMAIN last_result.proposal.affinity_change
    /\ last_result.proposal.affinity_change["Luna"] = 8
    /\ last_result.affinity_changes["Luna"] = 5
    /\ game_state.affinity["Luna"] = 55
    /\ game_state.turn_count = 1

----------------------------------------------------------------------------
(* Properties of LLMManager.generate *)

TextValid(text) == text.len > 0 /\ ~text.marker /\ text.stripped >= 5

ClientRank(client) ==
    CASE client = "primary" -> 1
      [] client = "fallback" -> 2
      [] client = "mock" -> 3

ValidResponseAt(i) ==
    /\ gen.invoked[i].outcome = "response"
    /\ TextValid(gen.invoked[i].text)

\* C7: generate invokes the providers only in the order primary, secondary,
\* mock; after a valid response of the primary neither the secondary nor the
\* mock is invoked, and after a valid response of the secondary the mock is
\* not invoked.
C7_ProviderOrder ==
    /\ \A i, j \in 1..Len(gen.invoked) :
          i < j => ClientRank(gen.invoked[i].client)
                     <= ClientRank(gen.invoked[j].client)
    /\ \A i \in 1..Len(gen.invoked) :
          (gen.invoked[i].client \in {"primary", "fallback"}
             /\ ValidResponseAt(i))
          => i = Len(gen.invoked)

\* three clients: the primary's response was rejected, the secondary's was
\* valid and the call is over
C7_Witness ==
    /\ gen.pc = "done"
    /\ gen.cfg.mock
    /\ Len(gen.invoked) = 2
    /\ gen.invoked[1].client = "primary"
    /\ gen.invoked[2].client = "fallback"
    /\ ValidResponseAt(2)

\* C8: every response generate returns is non-empty, does not start with
\* "[Error:" and has at least 5 characters after trimming; a response that
\* fails this test is not returned and generate goes on to the next
\* provider.
C8_ReturnedResponseValid ==
    /\ (gen.pc = "returned" \/ (gen.pc = "done" /\ ~gen.error))
       => TextValid(gen.response.text)
    /\ (/\ Len(gen.invoked) > 0
        /\ gen.invoked[Len(gen.invoked)].outcome = "response"
        /\ ~TextValid(gen.invoked[Len(gen.invoked)].text))
       => \/ gen.pc \in {"fallback", "mock", "raised"}
          \/ gen.pc = "done" /\ gen.error

\* two rejected responses, then the mock's response is returned
C8_Witness ==
    /\ gen.pc = "returned"
    /\ gen.response.provider = MockProvider
    /\ Len(gen.invoked) = 3
    /\ gen.invoked[1].text = TextError
    /\ gen.invoked[2].text = TextShort

\* the primary raised a transport error on every attempt and the secondary
\* then returned a valid response
PrimaryExhaustedSecondaryValid ==
    /\ gen.cfg.primary /\ gen.cfg.fallback /\ gen.cfg.mock
    /\ ~gen.use_mock
    /\ Len(gen.invoked) > RetryAttempts
    /\ \A i \in 1..RetryAttempts :
          /\ gen.invoked[i].client = "primary"
          /\ gen.invoked[i].outcome = "transport"
    /\ gen.invoked[RetryAttempts + 1].client = "fallback"
    /\ ValidResponseAt(RetryAttempts + 1)

\* C9: with all three providers configured, when the primary fails with
\* transport errors until its retries are exhausted and the secondary then
\* returns a valid response, generate returns the secondary's response
\* without raising, the mock is not invoked, and the turn's provider_used
\* names the secondary.
C9_FallbackAfterRetries ==
    PrimaryExhaustedSecondaryValid
    => /\ gen.pc \in {"returned", "done"}
       /\ ~gen.error
       /\ gen.response = LLMResponse(gen.invoked[RetryAttempts + 1].text,
                                     MoonshotProvider)
       /\ Len(gen.invoked) = RetryAttempts + 1
       /\ gen.pc = "done" => gen.provider_used = MoonshotProvider

C9_Witness ==
    /\ PrimaryExhaustedSecondaryValid
    /\ gen.pc = "done"
    /\ gen.provider_used = MoonshotProvider

----------------------------------------------------------------------------
(* Properties of the StoryDirector *)

\* positions in the arc of the beats that may fire
Triggered(gs, completed) ==
    {i \in 1..Len(ArcBeats) :
        /\ ~(ArcBeats[i].once /\ ArcBeats[i].id \in completed)
        /\ _evaluate_trigger(ArcBeats[i].trigger, gs)}

\* C10: get_active_instruction returns at most one beat: among the beats
\* whose trigger is true (completed once-beats excluded) the one with the
\* lowest numeric priority, ties broken by declaration order; the result is
\* a function of the WorldState and the completed-beat set.
C10_LowestPriorityBeat ==
    dir.called =>
        LET T == Triggered(dir.gs, dir.completed)
        IN IF T = {} THEN dir.selected = ""
           ELSE \E i \in T :
                   /\ dir.selected = ArcBeats[i].id
                   /\ \A j \in T :
                         \/ ArcBeats[i].priority < ArcBeats[j].priority
                         \/ /\ ArcBeats[i].priority = ArcBeats[j].priority
                            /\ i <= j

\* a completed once-beat of priority 1 is left out, two beats tie at
\* priority 2 and a beat of priority 3 is triggered as well
C10_Witness ==
    /\ dir.called
    /\ dir.selected = "park_talk"
    /\ "confession" \in dir.completed
    /\ dir.gs.affinity["Stella"] = 3
    /\ dir.gs.turn_count = 3
    /\ dir.gs.current_location = "park"

\* execution records of a beat in the history
RECURSIVE Executions(_, _)
Executions(history, beat_id) ==
    IF history = <<>> THEN 0
    ELSE (IF Head(history).beat_id = beat_id THEN 1 ELSE 0)
         + Executions(Tail(history), beat_id)

\* C11: once the completion of a beat with once = true has been recorded,
\* no later get_active_instruction selects that beat, so the beat history
\* holds at most one execution record for it.
C11_OnceBeatNotRepeated ==
    \A i \in 1..Len(ArcBeats) :
        ArcBeats[i].once =>
            /\ Executions(beat_history, ArcBeats[i].id) <= 1
            /\ ArcBeats[i].id \in beat_completed
                  => dir.selected # ArcBeats[i].id

\* park_talk was completed once; asked again in the park, where its
\* trigger is still true, the director selects the beat tied with it
C11_Witness ==
    /\ "park_talk" \in beat_completed
    /\ Executions(beat_history, "park_talk") = 1
    /\ dir.called
    /\ dir.gs.current_location = "park"
    /\ dir.gs.affinity["Stella"] = 0
    /\ dir.gs.quest_flags = EmptyDict
    /\ dir.selected = "park_walk"

----------------------------------------------------------------------------
(* Properties of the turn loop: beats, results and the turn counter *)

\* C12: a turn in which a beat was selected and whose validation in step 6
\* does not report success still completes and returns its result; no
\* execution record is added and the beat stays out of the completed set.
C12_UnvalidatedBeatTurnCompletes ==
    [][\A t \in BagToSet(turns) :
          (/\ t.pc = "mem_assistant"
           /\ t.beat # ""
           /\ turns' # turns)
          => /\ beat_history' = beat_history
             /\ beat_completed' = beat_completed
             /\ \/ t \in BagToSet(turns')
                \/ [Committed(t, {"message_assistant"})
                      EXCEPT !.pc = "save",
                             !.validated = _validate_updates(t.proposal,
                                                             game_state)]
                      \in BagToSet(turns')
                \/ last_result'.kind = "result"]_vars

\* C13: no process_turn call ends with an exception: a call returns a
\* TurnResult with text, or ends without narrative only because every
\* provider failed; a handled movement command, a selected beat and an
\* invalid value in the proposal are no exceptions to this.
C13_TurnEndsWithResult ==
    \/ last_result.kind = "none"
    \/ /\ last_result.kind = "result"
       /\ last_result.text \in {"narrative", "blocked", "error"}
       /\ last_result.exc = ""

----------------------------------------------------------------------------
(* Properties of QuestEngine.process_turn *)

\* positions of the exit conditions of a stage that are satisfied
Satisfied(stage, gs, user_input) ==
    {i \in 1..Len(stage.exit_conditions) :
        evaluate(stage.exit_conditions[i], gs, user_input, gs.turn_count)}

\* the transition target a stage is to follow, "" when there is none
ExpectedTarget(stage, gs, user_input) ==
    LET S == Satisfied(stage, gs, user_input)
        label == IF S = {} THEN "default"
                 ELSE "condition_"
                      \o ToString((CHOOSE i \in S : \A j \in S : i <= j) - 1)
        K == {k \in 1..Len(stage.transitions) :
                 stage.transitions[k].condition = label}
    IN IF K = {} THEN ""
       ELSE stage.transitions[CHOOSE k \in K : \A j \in K : k <= j]
                 .target_stage

\* the instance after following the target
Followed(target, quest, before, after) ==
    CASE target = "_complete" ->
           /\ after.status = "completed"
           /\ after.current_stage_id = before.current_stage_id
      [] target = "_fail" ->
           /\ after.status = "failed"
           /\ after.current_stage_id = before.current_stage_id
      [] target \in DOMAIN quest.stages ->
           /\ after.status = "active"
           /\ after.current_stage_id = target
      [] OTHER -> after = before

\* C14: process_turn evaluates the exit conditions of the current stage in
\* declaration order and follows the transition labelled for the first
\* satisfied index; the default transition is followed only when no exit
\* condition is satisfied. A stage whose only exit condition is
\* turn_count >= 5 makes no transition at turn 4 and moves to its target at
\* turn 5.
C14_FirstSatisfiedExit ==
    (/\ quest_call.called
     /\ HasInstance(quest_call.pre.qs, quest_call.quest_id)
     /\ InstanceOf(quest_call.pre.qs, quest_call.quest_id).status = "active")
    => LET quest == QuestDefs[quest_call.quest_id]
           before == InstanceOf(quest_call.pre.qs, quest_call.quest_id)
           after == InstanceOf(active_states, quest_call.quest_id)
       IN before.current_stage_id \in DOMAIN quest.stages
          => /\ Followed(ExpectedTarget(quest.stages[before.current_stage_id],
                                        quest_call.pre.gs,
                                        quest_call.user_input),
                         quest, before, after)
             /\ (/\ quest_call.quest_id = "q3"
                 /\ before.current_stage_id = "w1")
                => /\ quest_call.pre.gs.turn_count = 4 => after = before
                   /\ quest_call.pre.gs.turn_count = 5
                        => after.current_stage_id = "w2"

\* both exit conditions of s1 were satisfied and the transition of the first
\* one was followed
C14_Witness ==
    /\ quest_call.called
    /\ quest_call.quest_id = "q1"
    /\ quest_call.user_input = <<"addio">>
    /\ quest_call.pre.gs.affinity["Luna"] = 50
    /\ HasInstance(quest_call.pre.qs, "q1")
    /\ InstanceOf(quest_call.pre.qs, "q1").current_stage_id = "s1"
    /\ InstanceOf(quest_call.pre.qs, "q1").status = "active"
    /\ InstanceOf(active_states, "q1").status = "failed"

\* the stage waiting for turn 5 was left at turn 5 and not before
C14_WitnessTurnFive ==
    /\ quest_call.called
    /\ quest_call.quest_id = "q3"
    /\ quest_call.pre.gs.turn_count = 5
    /\ HasInstance(quest_call.pre.qs, "q3")
    /\ InstanceOf(quest_call.pre.qs, "q3").current_stage_id = "w1"
    /\ InstanceOf(active_states, "q3").current_stage_id = "w2"

\* C15: once a QuestInstance is COMPLETED or FAILED, no later step of the
\* turn loop changes its status, its current stage or its turn stamps, and
\* it is not replaced by a fresh instance.
C15_TerminalQuestFrozen ==
    [][\A i \in 1..Len(active_states) :
          active_states[i].status \in {"completed", "failed"}
          => /\ i <= Len(active_states')
             /\ active_states'[i] = active_states[i]]_vars

ReturnedAtOnce ==
    /\ started' = started + 1
    /\ BagCardinality(turns') = BagCardinality(turns)

\* C17: the turn counter never decreases, and every process_turn call that
\* returns a result without error advances it by exactly one (calls that
\* ran alone).
C17_TurnCounterAdvances ==
    [][/\ game_state'.turn_count >= game_state.turn_count
       /\ \A t \in BagToSet(turns) :
             (/\ turns' = turns (-) SetToBag({t})
              /\ ~t.overlapped
              /\ last_result'.kind = "result"
              /\ last_result'.text # "error")
             => game_state'.turn_count = t.pre.gs.turn_count + 1
       /\ (/\ ReturnedAtOnce
           /\ InFlight = 0
           /\ last_result'.kind = "result"
           /\ last_result'.text # "error")
          => game_state'.turn_count = game_state.turn_count + 1]_vars

----------------------------------------------------------------------------
(* Properties of the MemoryManager *)

\* the step is the next step of the add_message call c, which ran alone
MemOwnStep(c) ==
    /\ c.alone
    /\ memory'.next = memory.next
    /\ memory'.calls # memory.calls

----------------------------------------------------------------------------
(* Properties of the proposal validation *)

\* the step is steps 6 and 7 of the turn t, which selected no beat
ValidatesAndApplies(t) ==
    /\ t.pc = "mem_assistant"
    /\ t.beat = ""
    /\ started' = started
    /\ CopiesIn(t, turns') < CopiesIn(t, turns)

InvalidOutfit(p, gs) ==
    p.current_outfit # "" /\ p.current_outfit \notin Wardrobe[gs.active_companion]

InvalidLocation(p) == p.location # "" /\ p.location \notin LocationIds

\* C19: for a proposal with an outfit or location that the content does not
\* define, exactly that field is dropped (the WorldState field keeps its
\* value) and every other valid field of the proposal is applied: known
\* companions' affinity, a defined outfit or location, a time of day of the
\* enumeration, the flags and the emotion.
C19_InvalidFieldDropped ==
    [][\A t \in BagToSet(turns) :
          LET p == t.proposal
              gs == game_state
          IN (/\ ValidatesAndApplies(t)
              /\ InvalidOutfit(p, gs) \/ InvalidLocation(p))
             => /\ IF InvalidOutfit(p, gs) \/ p.current_outfit = ""
                   THEN game_state'.companion_outfit = gs.companion_outfit
                   ELSE game_state'.companion_outfit = p.current_outfit
                /\ IF InvalidLocation(p) \/ p.location = ""
                   THEN game_state'.current_location = gs.current_location
                   ELSE game_state'.current_location = p.location
                /\ p.time_of_day \in TimeOfDayValues
                     => game_state'.time_of_day = p.time_of_day
                /\ \A k \in DOMAIN p.set_flags :
                      /\ k \in DOMAIN game_state'.flags
                      /\ game_state'.flags[k] = p.set_flags[k]
                /\ p.npc_emotion # ""
                     => /\ gs.active_companion \in DOMAIN game_state'.npc_states
                        /\ game_state'.npc_states[gs.active_companion]
                              = p.npc_emotion
                /\ \A c \in DOMAIN p.affinity_change \cap DOMAIN gs.affinity :
                      game_state'.affinity[c]
                        = ClampTo(0, 100, gs.affinity[c]
                                    + ClampTo(-5, 5, p.affinity_change[c]))]_vars

----------------------------------------------------------------------------
(* Properties of the provider clients *)

\* the output is a JSON object whose updates, if any, are a mapping
ExpectedShape(output) ==
    /\ output.json.t = "dict"
    /\ output.json.updates.t \in {"absent", "mapping"}

\* C20: for a provider output that is not valid JSON of the expected object
\* shape (no JSON, a JSON array or scalar, updates of the wrong shape)
\* _parse_response does not raise and returns a response whose text is the
\* raw output and whose updates are empty, and the client does not return an
\* error response for it.
C20_MalformedOutputIsPlainText ==
    /\ \A i \in 1..Len(parse.parsed) :
          ~ExpectedShape(parse.parsed[i].output)
          => /\ ~parse.parsed[i].result.raised
             /\ parse.parsed[i].result.text = parse.parsed[i].output.raw
             /\ parse.parsed[i].result.location = ""
    /\ (/\ parse.pc = "done"
        /\ parse.parsed # <<>>
        /\ ~ExpectedShape(parse.parsed[Len(parse.parsed)].output))
       => parse.result.text = parse.parsed[Len(parse.parsed)].output.raw

\* C21: a turn performs one persistence transaction: the rows a call of
\* process_turn wrote (messages, WorldState, quest states) are committed in
\* a single transaction, and a call that ended with an exception committed
\* nothing.
C21_OneTransactionPerTurn ==
    /\ Len(last_result.tx) <= 1
    /\ last_result.kind = "exception" => last_result.tx = <<>>

----------------------------------------------------------------------------
(* MemoryManager.search_memories, called twice on the same fact store.  A   *)
(* text is the sequence of its words; a score is kept in units of 1/600 so  *)
(* that the quotients of the code are exact.  A fact's id is <<>> (None,    *)
(* before the insert returned) or <<n>>.  The vector collection is part of  *)
(* the fact store: both runs get the same answer from it.  What differs     *)
(* between the runs is the hash seed of the interpreter.                    *)

\* scores are multiples of 1/Scale
Scale == 6 * 100

\* KeywordExtractor.STOP_WORDS, the entries that occur in the texts used
STOP_WORDS == {"the", "il", "di"}

\* extract(text, min_length=3)
min_length == 3

\* number of letters of the words used
WordLength(w) == IF w \in {"il", "di", "ok"} THEN 2 ELSE IF w = "the" THEN 3 ELSE 4

\* KeywordExtractor.extract: the set of words that are no stop words and
\* have at least min_length letters
extract(text) ==
    {w \in {text[i] : i \in DOMAIN text} :
        w \notin STOP_WORDS /\ WordLength(w) >= min_length}

\* KeywordExtractor.calculate_similarity
calculate_similarity(text1, text2) ==
    LET keywords1 == extract(text1)
        keywords2 == extract(text2)
    IN IF keywords1 = {} \/ keywords2 = {}
       THEN 0
       ELSE (Scale * Cardinality(keywords1 \cap keywords2))
                \div Cardinality(keywords1 \cup keywords2)

MemoryEntry(id, content, importance) ==
    [id |-> id, content |-> content, importance |-> importance]

\* memory_scores: a dict, kept as its items in insertion order
ScoreItem(key, fact, score, match_type) ==
    [key |-> key, fact |-> fact, score |-> score, match_type |-> match_type]

\* key in memory_scores
ScoreHas(d, key) == \E i \in DOMAIN d : d[i].key = key

ScoreGet(d, key) == d[CHOOSE i \in DOMAIN d : d[i].key = key]

\* memory_scores[key] = ...: a key that is present keeps its position
ScorePut(d, item) ==
    IF ScoreHas(d, item.key)
    THEN [i \in DOMAIN d |-> IF d[i].key = item.key THEN item ELSE d[i]]
    ELSE Append(d, item)

\* fact.id or 0
IdOrZero(id) == IF id = <<>> THEN 0 ELSE id[1]

\* fact.id in memory_scores: None is no key of the dict
IdIn(d, id) == id # <<>> /\ ScoreHas(d, id[1])

\* 1. the keyword pass over self._facts[i..]
RECURSIVE KeywordPass(_, _, _, _, _)
KeywordPass(query, facts, min_importance, i, d) ==
    IF i > Len(facts) THEN d
    ELSE LET fact == facts[i]
             overlap == extract(query) \cap extract(fact.content)
             keyword_sim == calculate_similarity(query, fact.content)
                              + Cardinality(overlap) * (Scale \div 10)
         IN KeywordPass(query, facts, min_importance, i + 1,
                IF fact.importance >= min_importance /\ keyword_sim > 0
                THEN ScorePut(d, ScoreItem(IdOrZero(fact.id), fact,
                                           keyword_sim, "keyword"))
                ELSE d)

\* for fact in self._facts: if fact.id == fact_id and ...: ... break
SemanticHit(facts, fact_id, min_importance) ==
    {i \in DOMAIN facts : /\ facts[i].id = <<fact_id>>
                          /\ facts[i].importance >= min_importance}

\* 2. the pass over semantic_results[j..]
RECURSIVE SemanticPass(_, _, _, _, _)
SemanticPass(semantic_results, facts, min_importance, j, d) ==
    IF j > Len(semantic_results) THEN d
    ELSE LET fact_id == semantic_results[j].memory_id
             score == semantic_results[j].score
             hit == SemanticHit(facts, fact_id, min_importance)
             fact == facts[CHOOSE i \in hit : \A i2 \in hit : i <= i2]
             scaled == (score * 9) \div 10
             existing == ScoreGet(d, fact_id).score
         IN SemanticPass(semantic_results, facts, min_importance, j + 1,
                IF hit = {} THEN d
                ELSE IF ScoreHas(d, fact_id)
                THEN ScorePut(d, ScoreItem(fact_id, fact,
                        (IF existing >= scaled THEN existing ELSE scaled)
                           + Scale \div 10, "hybrid"))
                ELSE ScorePut(d, ScoreItem(fact_id, fact, score,
                                           "semantic")))

\* 3. the importance pass over self._facts[i..]
RECURSIVE ImportancePass(_, _, _, _)
ImportancePass(facts, min_importance, i, d) ==
    IF i > Len(facts) THEN d
    ELSE LET fact == facts[i]
             importance_boost == (fact.importance - 5) * (Scale \div 100)
         IN ImportancePass(facts, min_importance, i + 1,
                IF /\ ~IdIn(d, fact.id)
                   /\ fact.importance >= min_importance + 3
                THEN ScorePut(d, ScoreItem(IdOrZero(fact.id), fact,
                                           importance_boost, "importance"))
                ELSE d)

\* a dict that iterates in the order of the hashes of its keys under the
\* hash seed of the run
ScoreValuesHashed(d, hash_seed) ==
    IF Len(d) < 2 \/ hash_seed % 2 = 0 THEN d
    ELSE [i \in DOMAIN d |-> d[Len(d) + 1 - i]]

\* memory_scores.values(): the insertion order, whatever the hash seed
ScoreValues(d, hash_seed) == d

\* sorted(..., key=lambda x: x[1], reverse=True): stable
RECURSIVE SortedByScore(_)
SortedByScore(items) ==
    IF items = <<>> THEN <<>>
    ELSE LET rest == SortedByScore(Tail(items))
             x == Head(items)
             before == {i \in DOMAIN rest : rest[i].score > x.score}
             n == Cardinality(before)
         IN SubSeq(rest, 1, n) \o <<x>> \o SubSeq(rest, n + 1, Len(rest))

\* MemoryManager.search_memories(query, k, min_importance, use_semantic)
search_memories(facts, query, k, min_importance, semantic_results, hash_seed) ==
    IF facts = <<>> THEN <<>>
    ELSE LET d1 == KeywordPass(query, facts, min_importance, 1, <<>>)
             d2 == SemanticPass(semantic_results, facts, min_importance, 1, d1)
             d3 == IF Len(d2) < k
                   THEN ImportancePass(facts, min_importance, 1, d2)
                   ELSE d2
             sorted_results == SortedByScore(ScoreValues(d3, hash_seed))
         IN SubSeq(sorted_results, 1, Min(k, Len(sorted_results)))

\* runs of search_memories observed on one fact store
MaxRuns == 2

HashSeeds == 0 .. 1

NoId == <<>>

FactPool ==
    {MemoryEntry(<<1>>, <<"luna", "the", "park">>, 5),
     MemoryEntry(<<2>>, <<"park", "luna">>, 5),
     MemoryEntry(<<3>>, <<"kiss", "luna">>, 8),
     MemoryEntry(NoId, <<"kiss">>, 9),
     MemoryEntry(NoId, <<"luna">>, 2)}

\* self._facts: the pool in any order, each fact at most once
FactLists ==
    {<<>>}
    \cup {<<a>> : a \in FactPool}
    \cup {fs \in FactPool \X FactPool : fs[1] # fs[2]}
    \cup {fs \in FactPool \X FactPool \X FactPool :
             fs[1] # fs[2] /\ fs[1] # fs[3] /\ fs[2] # fs[3]}

Queries == {<<"luna", "park">>, <<"il", "kiss">>, <<"the", "ok">>}

SemanticHitOf(memory_id, score) == [memory_id |-> memory_id, score |-> score]

\* what self._semantic_store.search(query, k * 2) returns; <<>> when the
\* store is disabled or not available
SemanticResults ==
    {<<>>,
     <<SemanticHitOf(2, 540), SemanticHitOf(3, 300)>>,
     <<SemanticHitOf(7, 500), SemanticHitOf(1, 100)>>}

SearchInit ==
    /\ \E facts \in FactLists, query \in Queries, k \in 1 .. 2,
          min_importance \in {1, 4}, semantic_results \in SemanticResults :
          search = [pc |-> "search", facts |-> facts, query |-> query,
                    k |-> k, min_importance |-> min_importance,
                    semantic_results |-> semantic_results, runs |-> <<>>]
    /\ game_state = InitGameState
    /\ active_states = <<>>
    /\ beat_completed = {}
    /\ beat_history = <<>>
    /\ recent_messages = 0
    /\ turns = EmptyBag
    /\ started = 0
    /\ btn_send_enabled = TRUE
    /\ last_result = NoOutcome
    /\ gen = [pc |-> "unused"]
    /\ dir = DirIdle
    /\ quest_call = QuestIdle
    /\ memory = MemIdle
    /\ parse = ParseIdle
    /\ validation = ValidationIdle
    /\ media = MediaIdle
    /\ SidesIdle

SearchUnchanged ==
    UNCHANGED <<game_state, active_states, beat_completed, beat_history,
                recent_messages, turns, started, btn_send_enabled,
                last_result, gen, dir, quest_call, memory, parse,
                validation, media, sideVars>>

\* one run of search_memories in an interpreter with the given hash seed
SearchMemories(hash_seed) ==
    /\ search.pc = "search"
    /\ Len(search.runs) < MaxRuns
    /\ search' = [search EXCEPT !.runs = Append(@,
          [hash_seed |-> hash_seed,
           results |-> search_memories(search.facts, search.query, search.k,
                                       search.min_importance,
                                       search.semantic_results, hash_seed)])]
    /\ SearchUnchanged

SearchNext == \E hash_seed \in HashSeeds : SearchMemories(hash_seed)

SearchSpec == SearchInit /\ [][SearchNext]_vars

\* the fact ids of a result list, in rank order
ResultIds(results) == [i \in DOMAIN results |-> results[i].fact.id]

----------------------------------------------------------------------------
(* StoryDirector.validate_beat_execution on its own, with the judge call as *)
(* its environment.  A quality is kept in hundredths.  The judge's answer   *)
(* is the text of the LLMResponse: an opening fence ("fence_json" for three *)
(* backticks and json, "fence" for three backticks, "" for none), a body    *)
(* and a closing fence, the body being what json.loads makes of it.         *)

\* a JSON value under a key of the verdict, or the absence of the key
JAbsent == [t |-> "absent"]
JNull == [t |-> "null"]
JNum(n) == [t |-> "num", n |-> n]
JBool(b) == [t |-> "bool", b |-> b]
\* a string, with whether float() converts it and to what
JStr(numeric, n) == [t |-> "str", numeric |-> numeric, n |-> n]

\* json.loads of a JSON object with the keys of a verdict
Verdict(success, quality) ==
    [t |-> "dict", success |-> success, quality |-> quality]

JudgeText(open, body, close) == [open |-> open, body |-> body, close |-> close]

\* text_json after strip() and the removal of the fences, then json.loads:
\* the slices [7:-3] and [3:-3] always drop the last three characters
loads_unfenced(text) ==
    IF text.open = ""
    THEN IF text.close = "" THEN text.body ELSE NotJson
    ELSE IF text.close = "fence" THEN text.body ELSE NotJson

\* float(v) of a JSON value: the number in hundredths, or raised
PyFloat(v) ==
    CASE v.t = "num" -> [raised |-> FALSE, n |-> v.n]
      [] v.t = "bool" -> [raised |-> FALSE, n |-> IF v.b THEN 100 ELSE 0]
      [] v.t = "str" /\ v.numeric -> [raised |-> FALSE, n |-> v.n]
      [] OTHER -> [raised |-> TRUE, n |-> 0]

\* the required elements that are no substring of the lower-cased response
missing_elements(required_elements, llm_response) ==
    SelectSeq(required_elements,
              LAMBDA element : ~StrContains(Lower(element), Lower(llm_response)))

\* the share of the elements that are missing
base_quality_of_missing(required_elements, missing) ==
    IF required_elements = <<>> THEN 100
    ELSE (100 * Len(missing)) \div Len(required_elements)

\* base_quality: 1.0 without required elements, else found / required
base_quality(required_elements, missing) ==
    IF required_elements = <<>> THEN 100
    ELSE (100 * (Len(required_elements) - Len(missing)))
            \div Len(required_elements)

BeatResult(success, quality, missing, judged) ==
    [success |-> success, quality |-> quality, missing |-> missing,
     judged |-> judged]

\* validate_beat_execution(beat, llm_response); judge is what the awaited
\* llm_manager.generate did: raised, or returned a response with a text
validate_beat_execution(required_elements, llm_response, judge) ==
    LET missing == missing_elements(required_elements, llm_response)
        base == BeatResult(missing = <<>>,
                           base_quality(required_elements, missing),
                           missing, FALSE)
        data == loads_unfenced(judge.text)
        quality == IF data.quality = JAbsent
                   THEN [raised |-> FALSE, n |-> base.quality]
                   ELSE PyFloat(data.quality)
    IN IF judge.raised THEN base
       ELSE IF data.t # "dict" THEN base
       ELSE IF quality.raised THEN base
       ELSE BeatResult(IF data.success = JAbsent THEN FALSE
                       ELSE data.success.b,
                       quality.n, missing, TRUE)

RequiredElements == {<<>>, <<"kiss">>, <<"Kiss", "hug">>}

NarrativeTexts == {"she smiles", "A Kiss", "kissed and hugged"}

\* the answers of the judge
JudgeBodies ==
    {NotJson, JsonScalar("42"), JsonList(<<>>, "[]"),
     Verdict(JBool(TRUE), JNum(90)),
     Verdict(JBool(FALSE), JNum(0)),
     Verdict(JBool(TRUE), JNum(150)),
     Verdict(JBool(FALSE), JNum(-20)),
     Verdict(JBool(TRUE), JStr(TRUE, 80)),
     Verdict(JBool(TRUE), JStr(FALSE, 0)),
     Verdict(JBool(TRUE), JNull),
     Verdict(JBool(TRUE), JAbsent),
     Verdict(JAbsent, JNum(70))}

JudgeTexts ==
    {JudgeText(open, body, close) :
        open \in {"", "fence_json", "fence"}, body \in JudgeBodies,
        close \in {"", "fence"}}

NoJudge == [raised |-> FALSE, text |-> JudgeText("", NotJson, "")]

ValidateInit ==
    /\ \E required_elements \in RequiredElements,
          llm_response \in NarrativeTexts :
          validation = [pc |-> "call",
                        required_elements |-> required_elements,
                        llm_response |-> llm_response,
                        judge |-> NoJudge,
                        result |-> BeatResult(FALSE, 0, <<>>, FALSE)]
    /\ game_state = InitGameState
    /\ active_states = <<>>
    /\ beat_completed = {}
    /\ beat_history = <<>>
    /\ recent_messages = 0
    /\ turns = EmptyBag
    /\ started = 0
    /\ btn_send_enabled = TRUE
    /\ last_result = NoOutcome
    /\ gen = [pc |-> "unused"]
    /\ dir = DirIdle
    /\ quest_call = QuestIdle
    /\ memory = MemIdle
    /\ parse = ParseIdle
    /\ search = SearchIdle
    /\ media = MediaIdle
    /\ SidesIdle

ValidateUnchanged ==
    UNCHANGED <<game_state, active_states, beat_completed, beat_history,
                recent_messages, turns, started, btn_send_enabled,
                last_result, gen, dir, quest_call, memory, parse, search,
                media, sideVars>>

\* the call runs up to `await llm_manager.generate(...)`
ValidateCall ==
    /\ validation.pc = "call"
    /\ validation' = [validation EXCEPT !.pc = "judge"]
    /\ ValidateUnchanged

ValidateReturn(judge) ==
    /\ validation.pc = "judge"
    /\ validation' = [validation EXCEPT
          !.pc = "done",
          !.judge = judge,
          !.result = validate_beat_execution(validation.required_elements,
                                             validation.llm_response, judge)]
    /\ ValidateUnchanged

\* llm_manager.generate returned a response
JudgeReturns ==
    \E text \in JudgeTexts : ValidateReturn([raised |-> FALSE, text |-> text])

\* llm_manager.generate raised
JudgeRaises ==
    ValidateReturn([raised |-> TRUE, text |-> JudgeText("", NotJson, "")])

ValidateNext == ValidateCall \/ JudgeReturns \/ JudgeRaises

ValidateSpec == ValidateInit /\ [][ValidateNext]_vars

\* C23: the quality that validate_beat_execution returns lies in [0, 1],
\* from the baseline and from the judge alike.
C23_QualityInUnitInterval ==
    validation.pc = "done" =>
        validation.result.quality >= 0 /\ validation.result.quality <= 100

\* the required elements found in the lower-cased response
Matched(required_elements, llm_response) ==
    {i \in DOMAIN required_elements :
        StrContains(Lower(required_elements[i]), Lower(llm_response))}

\* the judge call returned and its answer parsed to a verdict
JudgeParsed(judge) ==
    /\ ~judge.raised
    /\ \/ judge.text.open = "" /\ judge.text.close = ""
       \/ judge.text.open # "" /\ judge.text.close # ""
    /\ judge.text.body.t = "dict"
    /\ \/ judge.text.body.quality.t \in {"absent", "num", "bool"}
       \/ /\ judge.text.body.quality.t = "str"
          /\ judge.text.body.quality.numeric

\* C27: validate_beat_execution returns the judge's success and quality
\* when the judge call returned a verdict that parses, whatever the
\* baseline says (a key the verdict lacks reads as success false and as the
\* baseline quality), and returns the baseline exactly when the call or the
\* parsing failed: success when every required element is a substring of the
\* response, quality matched / required, 1.0 when nothing is required; with
\* ["kiss"] required and no "kiss" in the text the baseline quality is 0.
C27_JudgeElseBaseline ==
    validation.pc = "done" =>
        LET required == validation.required_elements
            matched == Matched(required, validation.llm_response)
            verdict == validation.judge.text.body
            result == validation.result
            base_q == IF required = <<>> THEN 100
                      ELSE (100 * Cardinality(matched)) \div Len(required)
        IN /\ result.judged <=> JudgeParsed(validation.judge)
           /\ result.judged =>
                /\ result.success = (verdict.success = JBool(TRUE))
                /\ \/ verdict.quality = JAbsent /\ result.quality = base_q
                   \/ verdict.quality # JAbsent
                        /\ result.quality = verdict.quality.n
           /\ ~result.judged =>
                /\ result.success = (Cardinality(matched) = Len(required))
                /\ result.quality = base_q
           /\ (~result.judged /\ required = <<"kiss">>
                  /\ validation.llm_response = "she smiles")
                => result.quality = 0

\* the judge contradicted the baseline and was followed
C27_Witness ==
    /\ validation.pc = "done"
    /\ validation.result.judged
    /\ validation.required_elements = <<"kiss">>
    /\ validation.llm_response = "she smiles"
    /\ validation.result.success
    /\ validation.result.quality = 90

\* the judge's answer did not parse: the baseline of a response that lacks
\* the one required element
C27_WitnessBaseline ==
    /\ validation.pc = "done"
    /\ ~validation.judge.raised
    /\ ~validation.result.judged
    /\ validation.required_elements = <<"kiss">>
    /\ validation.llm_response = "she smiles"
    /\ validation.result.quality = 0
    /\ ~validation.result.success

----------------------------------------------------------------------------
(* The media jobs of step 8.  process_turn creates the task of              *)
(* MediaPipeline.generate_all and returns its handle without awaiting it,   *)
(* so a job runs between the steps of its own turn that follow and between  *)
(* the later turns.  The job holds the OutfitState object of the game       *)
(* state, not a copy.                                                       *)

MaxMediaTurns == 2
MaxJobs == 2

\* a map_outfit that consumes the outfit it is given
map_outfit_consuming(outfit) ==
    [positive |-> outfit, negative |-> "", outfit |-> ""]

\* OutfitPromptMapper.map_outfit: the prompt segments, and the outfit object
\* as the call leaves it
map_outfit(outfit) ==
    [positive |-> outfit, negative |-> "", outfit |-> outfit]

\* a generate_all task: pc is the await it is suspended at
MediaJob(turn_number) ==
    [pc |-> "created", turn_number |-> turn_number, built_at |-> -1,
     image_path |-> "", audio_path |-> "", success |-> TRUE]

MediaStart ==
    [jobs |-> EmptyBag, turn |-> "idle",
     saved |-> Snap(InitGameState, <<>>)]

MediaInit ==
    /\ media = MediaStart
    /\ game_state = InitGameState
    /\ active_states = <<>>
    /\ beat_completed = {}
    /\ beat_history = <<>>
    /\ recent_messages = 0
    /\ turns = EmptyBag
    /\ started = 0
    /\ btn_send_enabled = TRUE
    /\ last_result = NoOutcome
    /\ gen = [pc |-> "unused"]
    /\ dir = DirIdle
    /\ quest_call = QuestIdle
    /\ memory = MemIdle
    /\ parse = ParseIdle
    /\ search = SearchIdle
    /\ validation = ValidationIdle
    /\ SidesIdle

MediaUnchanged ==
    UNCHANGED <<beat_completed, beat_history, recent_messages, turns, started,
                btn_send_enabled, last_result, gen, dir, quest_call, memory,
                parse, search, validation, sideVars>>

\* steps 3 to 8 of a turn that no step ends early: the quests, the validated
\* updates, the turn counter, and the task of generate_all
MediaTurnRuns(user_input, proposal) ==
    /\ media.turn = "idle"
    /\ game_state.turn_count < MaxMediaTurns
    /\ BagCardinality(media.jobs) < MaxJobs
    /\ \E q \in {QuestStep(active_states, game_state, user_input)} :
       \E r \in {_apply_updates(_validate_updates(proposal, q.gs), q.gs)} :
          /\ ~r.raised
          /\ game_state' = advance_turn(r.gs)
          /\ active_states' = q.qs
          /\ media' = [media EXCEPT
                !.turn = "save",
                !.jobs = media.jobs
                           (+) SetToBag({MediaJob(r.gs.turn_count + 1)})]
    /\ MediaUnchanged

\* step 9: state_manager.save and save_quest_state
MediaTurnSaves ==
    /\ media.turn = "save"
    /\ media' = [media EXCEPT !.turn = "idle",
                              !.saved = Snap(game_state, active_states)]
    /\ UNCHANGED <<game_state, active_states>>
    /\ MediaUnchanged

\* the job j goes on as j2
JobStep(j, j2) == (media.jobs (-) SetToBag({j})) (+) SetToBag({j2})

\* _generate_image_async up to the await of the image client: the prompt is
\* built from the outfit object
JobBuildsPrompt(j) ==
    /\ j.pc = "created"
    /\ LET mapped == map_outfit(game_state.companion_outfit)
       IN /\ game_state' = [game_state EXCEPT
                               !.companion_outfit = mapped.outfit]
          /\ media' = [media EXCEPT !.jobs =
                JobStep(j, [j EXCEPT !.pc = "image",
                                     !.built_at = game_state.turn_count])]
    /\ UNCHANGED active_states
    /\ MediaUnchanged

\* the image client returned a path or nothing, or raised (which
\* _generate_image_async turns into None); generate_all awaits the audio
JobImageEnds(j, path) ==
    /\ j.pc = "image"
    /\ media' = [media EXCEPT !.jobs =
          JobStep(j, [j EXCEPT !.pc = "audio", !.image_path = path])]
    /\ UNCHANGED <<game_state, active_states>>
    /\ MediaUnchanged

\* the audio task ended with a path, or raised: generate_all returns
JobAudioEnds(j, raised) ==
    /\ j.pc = "audio"
    /\ media' = [media EXCEPT !.jobs =
          JobStep(j, [j EXCEPT !.pc = "done",
                               !.audio_path = IF raised THEN "" ELSE "mp3",
                               !.success = ~raised])]
    /\ UNCHANGED <<game_state, active_states>>
    /\ MediaUnchanged

\* the handle is cancelled, or dropped after the job is done
JobCancelled(j) ==
    /\ media' = [media EXCEPT !.jobs = media.jobs (-) SetToBag({j})]
    /\ UNCHANGED <<game_state, active_states>>
    /\ MediaUnchanged

MediaNext ==
    \/ \E user_input \in {<<"ciao">>, <<"addio">>},
          i \in DOMAIN Proposals : MediaTurnRuns(user_input, Proposals[i])
    \/ MediaTurnSaves
    \/ \E j \in BagToSet(media.jobs) : JobBuildsPrompt(j)
    \/ \E j \in BagToSet(media.jobs), path \in {"png", ""} :
          JobImageEnds(j, path)
    \/ \E j \in BagToSet(media.jobs), raised \in BOOLEAN :
          JobAudioEnds(j, raised)
    \/ \E j \in BagToSet(media.jobs) : JobCancelled(j)

MediaSpec == MediaInit /\ [][MediaNext]_vars

C25_QuestRecordsAgree ==
    (last_result.kind = "result" /\ last_result.text = "narrative"
        /\ turns = EmptyBag)
    => \A i \in DOMAIN QuestOrder :
          LET quest_id == QuestOrder[i]
              status == IF HasInstance(active_states, quest_id)
                        THEN InstanceOf(active_states, quest_id).status
                        ELSE "none"
          IN /\ quest_id \in Range(game_state.active_quests)
                  <=> status = "active"
             /\ quest_id \in Range(game_state.completed_quests)
                  <=> status = "completed"

\* C26: the value that set_flag wrote for a flag name is the value that a
\* quest FLAG condition, the trigger-type activation check and a beat
\* trigger read for that name.
C26_WrittenFlagIsRead ==
    \A key \in DOMAIN game_state.flags :
        LET value == game_state.flags[key]
        IN /\ evaluate(QuestCondition("flag", key, "eq", value, ""),
                       game_state, <<>>, game_state.turn_count)
           /\ Truthy(DictGet(game_state.quest_flags, key, VBool(FALSE)))
                = Truthy(value)
           /\ _evaluate_trigger(<<Atom(key, "==", value)>>, game_state)

\* the call of process_turn was for an ACTIVE quest at a declared stage
AdvancedActive ==
    /\ quest_call.called
    /\ HasInstance(quest_call.pre.qs, quest_call.quest_id)
    /\ InstanceOf(quest_call.pre.qs, quest_call.quest_id).status = "active"
    /\ InstanceOf(quest_call.pre.qs, quest_call.quest_id).current_stage_id
          \in DOMAIN QuestDefs[quest_call.quest_id].stages

\* the target that the call was to follow, "" when there is none
CallTarget ==
    LET quest == QuestDefs[quest_call.quest_id]
        before == InstanceOf(quest_call.pre.qs, quest_call.quest_id)
    IN ExpectedTarget(quest.stages[before.current_stage_id],
                      quest_call.pre.gs, quest_call.user_input)

\* no transition labelled for the first satisfied index, no default when no
\* exit is satisfied, or a target that is no declared stage
NoMatchingTransition ==
    \/ CallTarget = ""
    \/ CallTarget \notin DOMAIN QuestDefs[quest_call.quest_id].stages
                           \cup {"_complete", "_fail"}

\* C28: when process_turn finds no matching transition, the instance, the
\* other quests and WorldState are as they were and no action is executed.
C28_NoTransitionNoChange ==
    (AdvancedActive /\ NoMatchingTransition)
    => /\ active_states = quest_call.pre.qs
       /\ game_state = quest_call.pre.gs
       /\ quest_call.result.executed = <<>>
       /\ ~quest_call.result.stage_changed

\* an exit is satisfied and no transition is labelled for it
C28_WitnessUnlabelled ==
    /\ AdvancedActive
    /\ quest_call.quest_id = "q3"
    /\ Satisfied(QuestDefs["q3"].stages["w1"], quest_call.pre.gs,
                 quest_call.user_input) = {2}
    /\ CallTarget = ""

\* no exit is satisfied and the default names an undeclared stage
C28_Witness ==
    /\ AdvancedActive
    /\ quest_call.quest_id = "q2"
    /\ CallTarget = "t2"
    /\ Len(active_states) = 2

\* no exit is satisfied and there is no default
C28_WitnessNoDefault ==
    /\ AdvancedActive
    /\ quest_call.quest_id = "q1"
    /\ Satisfied(QuestDefs["q1"].stages["s1"], quest_call.pre.gs,
                 quest_call.user_input) = {}
    /\ InstanceOf(quest_call.pre.qs, "q1").current_stage_id = "s1"
    /\ CallTarget = ""

\* status of a quest in the engine's record, "none" without an instance
StatusIn(qs, quest_id) ==
    IF HasInstance(qs, quest_id) THEN InstanceOf(qs, quest_id).status
    ELSE "none"

PrerequisitesCompleted(quest_id, qs) ==
    \A r \in Range(QuestDefs[quest_id].required_quests) :
        StatusIn(qs, r) = "completed"

\* C29: a quest becomes ACTIVE only in a state in which each of its
\* prerequisites is COMPLETED, so an ACTIVE quest has its prerequisites
\* COMPLETED; activate_quest for a quest with a prerequisite that is not
\* COMPLETED returns None, leaves every instance and WorldState as they are
\* and executes no action.
C29_ActiveHadPrerequisites ==
    /\ [](\A quest_id \in QuestIds :
            /\ StatusIn(active_states, quest_id) = "active"
                 => PrerequisitesCompleted(quest_id, active_states)
            /\ ~PrerequisitesCompleted(quest_id, active_states)
                 => activate_quest(quest_id, active_states, game_state)
                      = [ok |-> FALSE, qs |-> active_states,
                         gs |-> game_state, executed |-> <<>>])
    /\ [][\A quest_id \in QuestIds :
            (/\ StatusIn(active_states, quest_id) # "active"
             /\ StatusIn(active_states', quest_id) = "active")
            => PrerequisitesCompleted(quest_id, active_states)]_vars

\* q2 is ACTIVE: it was activated after its prerequisite q1 was COMPLETED
C29_Witness ==
    /\ StatusIn(active_states, "q2") = "active"
    /\ StatusIn(active_states, "q1") = "completed"
    /\ game_state.companion_outfit = "gym"

\* q2 is due (the location is the park) while q1 is not COMPLETED
C29_WitnessRefused ==
    /\ game_state.current_location = "park"
    /\ StatusIn(active_states, "q1") \in {"active", "failed"}
    /\ StatusIn(active_states, "q2") = "none"
    /\ started >= 2

\* the quest went from ACTIVE to the given status in this step
Ended(quest_id, status) ==
    /\ StatusIn(active_states, quest_id) = "active"
    /\ StatusIn(active_states', quest_id) = status

\* C30: a transition to _complete sets the quest COMPLETED, records the
\* turn of completion and executes the quest's reward actions; a transition
\* to _fail sets it FAILED and executes no reward action; after either,
\* process_turn leaves that quest alone in every later turn.
C30_VirtualStagesEndQuest ==
    [][\A quest_id \in QuestIds :
          /\ Ended(quest_id, "completed")
             => /\ InstanceOf(active_states', quest_id).completed_at
                      = game_state.turn_count
                /\ game_state' =
                      ExecuteAll(
                          _rewards_to_actions(QuestDefs[quest_id].rewards),
                          game_state, <<>>).gs
          /\ Ended(quest_id, "failed")
             => /\ InstanceOf(active_states', quest_id).completed_at = -1
                /\ game_state' = game_state
          /\ StatusIn(active_states, quest_id) \in {"completed", "failed"}
             => InstanceOf(active_states', quest_id)
                   = InstanceOf(active_states, quest_id)]_vars

----------------------------------------------------------------------------
(* One session over the lifetime of its database row.  A turn runs alone,  *)
(* from step 0 to the save of step 9; the window is opened again on the    *)
(* same session id by a new GameEngine whose load_session reads the row.   *)

MaxSessionTurns == 3
MaxLoads == 1

\* GameSessionModel as create_session inserts it: the columns it does not
\* pass take their defaults
create_session(companion, affinity) ==
    [turn_count |-> 0, time_of_day |-> "Morning",
     current_location |-> "Unknown", active_companion |-> companion,
     companion_outfit |-> "default", npc_states |-> EmptyDict,
     affinity |-> affinity, flags |-> EmptyDict]

\* StateManager.save: update_session sets the columns the model has
save(row, gs) ==
    [row EXCEPT !.turn_count = gs.turn_count,
                !.time_of_day = gs.time_of_day,
                !.current_location = gs.current_location,
                !.active_companion = gs.active_companion,
                !.companion_outfit = gs.companion_outfit,
                !.npc_states = gs.npc_states,
                !.affinity = gs.affinity,
                !.flags = gs.flags]

QuestStateModel(quest_id, status, current_stage_id) ==
    [quest_id |-> quest_id, status |-> status,
     current_stage_id |-> current_stage_id]

\* save_quest_state: the row of the quest is updated, or a new row is added
save_quest_state(rows, quest_id, status, current_stage_id) ==
    IF \E i \in 1..Len(rows) : rows[i].quest_id = quest_id
    THEN [i \in 1..Len(rows) |->
             IF rows[i].quest_id = quest_id
             THEN QuestStateModel(quest_id, status, current_stage_id)
             ELSE rows[i]]
    ELSE Append(rows, QuestStateModel(quest_id, status, current_stage_id))

\* for quest_state in get_all_states(): save_quest_state(...)
RECURSIVE SaveQuestStates(_, _)
SaveQuestStates(rows, qs) ==
    IF qs = <<>> THEN rows
    ELSE SaveQuestStates(save_quest_state(rows, Head(qs).quest_id,
                                          Head(qs).status,
                                          Head(qs).current_stage_id),
                         Tail(qs))

\* the ids of the rows with the given status, in row order
RECURSIVE RowsWithStatus(_, _)
RowsWithStatus(rows, status) ==
    IF rows = <<>> THEN <<>>
    ELSE (IF Head(rows).status = status THEN <<Head(rows).quest_id>>
          ELSE <<>>) \o RowsWithStatus(Tail(rows), status)

\* StateManager.load: the GameState built from the row and the quest rows;
\* the fields it does not pass take their defaults
load(row, rows) ==
    [turn_count |-> row.turn_count,
     current_location |-> row.current_location,
     time_of_day |-> row.time_of_day,
     active_companion |-> row.active_companion,
     companion_outfit |-> row.companion_outfit,
     affinity |-> row.affinity,
     flags |-> row.flags, quest_flags |-> EmptyDict,
     active_quests |-> RowsWithStatus(rows, "active"),
     completed_quests |-> RowsWithStatus(rows, "completed"),
     npc_states |-> row.npc_states]

\* for quest_id in get_active_quests(): process_turn(quest_id, ...), with
\* the quests whose completion rewards were executed (quest_completed)
RECURSIVE ProcessAllRuns(_, _, _, _, _)
ProcessNext(r, ids, user_input, runs) ==
    ProcessAllRuns(Tail(ids), r.qs, r.gs, user_input,
                   IF r.quest_completed THEN Append(runs, Head(ids))
                   ELSE runs)
ProcessAllRuns(ids, qs, gs, user_input, runs) ==
    IF ids = <<>> THEN [qs |-> qs, gs |-> gs, runs |-> runs]
    ELSE ProcessNext(quest_process_turn(Head(ids), qs, gs, user_input),
                     ids, user_input, runs)

\* step 3 of process_turn with the reward runs of its loop
ProcessActive(a, user_input) ==
    ProcessAllRuns(get_active_quests(a.qs), a.qs, a.gs, user_input, <<>>)
QuestStepRuns(qs, gs, user_input) ==
    ProcessActive(ActivateAll(check_activations(qs, gs), qs, gs), user_input)

\* the reward runs of the quests, with those of one more step 3
Rewarded(rewards, runs) ==
    [q \in QuestIds |->
        rewards[q] + Cardinality({i \in 1..Len(runs) : runs[i] = q})]

\* GameEngine.initialize of a new game
SessionStart ==
    [pc |-> "playing",
     row |-> create_session("Luna", [c \in CompanionSet |-> 0]),
     quest_rows |-> <<>>,
     rewards |-> [q \in QuestIds |-> 0],
     saved |-> Snap(InitGameState, <<>>),
     last |-> "new", loads |-> 0]

SessionInit ==
    /\ session = SessionStart
    /\ personality = PersonalityIdle
    /\ evaluation = EvaluationIdle
    /\ game_state = InitGameState
    /\ active_states = <<>>
    /\ beat_completed = {}
    /\ beat_history = <<>>
    /\ recent_messages = 0
    /\ turns = EmptyBag
    /\ started = 0
    /\ btn_send_enabled = TRUE
    /\ last_result = NoOutcome
    /\ gen = [pc |-> "unused"]
    /\ dir = DirIdle
    /\ quest_call = QuestIdle
    /\ memory = MemIdle
    /\ parse = ParseIdle
    /\ search = SearchIdle
    /\ validation = ValidationIdle
    /\ media = MediaIdle

SessionUnchanged ==
    UNCHANGED <<beat_completed, beat_history, recent_messages, turns, started,
                btn_send_enabled, last_result, gen, dir, quest_call, memory,
                parse, search, validation, media, personality,
                evaluation>>

\* step 0 handled the input as a movement: process_turn returns or raises
\* before any save
SessionMoves(user_input) ==
    /\ session.pc = "playing"
    /\ \E mv \in {_check_and_handle_movement(user_input, game_state)} :
          /\ mv.handled
          /\ game_state' = mv.gs
    /\ session' = [session EXCEPT !.last = "unsaved"]
    /\ UNCHANGED active_states
    /\ SessionUnchanged

\* steps 1 to 5 of a turn whose generation failed: the error TurnResult is
\* returned after the quests of step 3 were processed
SessionGenerationFails(user_input) ==
    /\ session.pc = "playing"
    /\ ~_check_and_handle_movement(user_input, game_state).handled
    /\ \E q \in {QuestStepRuns(active_states, game_state, user_input)} :
          /\ active_states' = q.qs
          /\ game_state' = q.gs
          /\ session' = [session EXCEPT
                !.last = "unsaved",
                !.rewards = Rewarded(@, q.runs)]
    /\ SessionUnchanged

\* steps 1 to 7 of a turn that raises before step 9: the result of the beat
\* validation is unpacked, or _apply_updates raises
SessionTurnRaises(user_input, proposal) ==
    /\ session.pc = "playing"
    /\ ~_check_and_handle_movement(user_input, game_state).handled
    /\ \E beat \in {get_active_instruction(game_state, beat_completed)} :
       \E q \in {QuestStepRuns(active_states, game_state, user_input)} :
       \E r \in {_apply_updates(_validate_updates(proposal, q.gs), q.gs)} :
          /\ beat # "" \/ r.raised
          /\ active_states' = q.qs
          /\ game_state' = IF beat = "" THEN r.gs ELSE q.gs
          /\ session' = [session EXCEPT
                !.last = "unsaved",
                !.rewards = Rewarded(@, q.runs)]
    /\ SessionUnchanged

\* steps 1 to 9 of a turn that reaches the save
SessionTurnSaves(user_input, proposal) ==
    /\ session.pc = "playing"
    /\ game_state.turn_count < MaxSessionTurns
    /\ ~_check_and_handle_movement(user_input, game_state).handled
    /\ get_active_instruction(game_state, beat_completed) = ""
    /\ \E q \in {QuestStepRuns(active_states, game_state, user_input)} :
       \E r \in {_apply_updates(_validate_updates(proposal, q.gs), q.gs)} :
          /\ ~r.raised
          /\ active_states' = q.qs
          /\ game_state' = advance_turn(r.gs)
          /\ session' = [session EXCEPT
                !.last = "saved",
                !.row = save(@, advance_turn(r.gs)),
                !.quest_rows = SaveQuestStates(@, q.qs),
                !.saved = Snap(advance_turn(r.gs), q.qs),
                !.rewards = Rewarded(@, q.runs)]
    /\ SessionUnchanged

\* the window is closed and opened on the same session id: a new GameEngine
\* (its QuestEngine has no instances) runs load_session
SessionLoads ==
    /\ session.pc = "playing"
    /\ session.loads < MaxLoads
    /\ game_state' = load(session.row, session.quest_rows)
    /\ active_states' = <<>>
    /\ session' = [session EXCEPT
          !.last = IF session.last \in {"saved", "loaded"}
                   THEN "loaded" ELSE "reverted",
          !.loads = @ + 1]
    /\ SessionUnchanged

SessionInputs == {<<"ciao">>, <<"addio">>, <<"vado", "park">>}

SessionNext ==
    \/ \E user_input \in SessionInputs : SessionMoves(user_input)
    \/ \E user_input \in SessionInputs : SessionGenerationFails(user_input)
    \/ \E user_input \in SessionInputs, i \in DOMAIN Proposals :
          SessionTurnRaises(user_input, Proposals[i])
    \/ \E user_input \in SessionInputs, i \in DOMAIN Proposals :
          SessionTurnSaves(user_input, Proposals[i])
    \/ SessionLoads

SessionSpec == SessionInit /\ [][SessionNext]_vars

\* C31: across the turns of one session, the reward actions of a quest are
\* executed at most once.
C31_RewardsAtMostOnce ==
    \A quest_id \in QuestIds : session.rewards[quest_id] <= 1

\* the fields of WorldState that C33 names
WorldStateOf(gs) ==
    [turn_count |-> gs.turn_count, current_location |-> gs.current_location,
     time_of_day |-> gs.time_of_day,
     active_companion |-> gs.active_companion, affinity |-> gs.affinity,
     flags |-> gs.flags]

\* status and current stage of every quest in the engine's record
QuestProgressOf(qs) ==
    [quest_id \in QuestIds |->
        IF HasInstance(qs, quest_id)
        THEN <<InstanceOf(qs, quest_id).status,
               InstanceOf(qs, quest_id).current_stage_id>>
        ELSE <<"none", "">>]

\* C33: after a save at the end of a turn, loading the same session id
\* restores the WorldState and every quest's status and current stage as
\* they were at the save.
C33_LoadRestoresSave ==
    session.last = "loaded"
       => /\ WorldStateOf(game_state) = WorldStateOf(session.saved.gs)
          /\ QuestProgressOf(active_states)
               = QuestProgressOf(session.saved.qs)

\* the rows of the conversation log
LogRows == {"message_user", "message_assistant"}

\* every transaction of tx that wrote log rows follows one that wrote the
\* WorldState
LogFollowsState(tx) ==
    \A i \in 1..Len(tx) :
        tx[i] \cap LogRows # {}
           => \E j \in 1..(i - 1) : "world_state" \in tx[j]

\* C32: within a turn the conversation log is appended only after the
\* validated state updates were applied and committed, and a turn that ended
\* without that commit left no message of its own in the log.
C32_LogAfterCommit ==
    /\ \A t \in BagToSet(turns) : LogFollowsState(t.tx)
    /\ LogFollowsState(last_result.tx)

\* C34: a process_turn call that handles its input as a movement command
\* returns a TurnResult with provider_used "system", makes no generation
\* call, keeps the turn counter, affinity, flags, quest instances and
\* conversation log, and changes current_location only on success and only
\* to a target that passed can_move_to.
C34_MovementOnlyMoves ==
    [][ReturnedAtOnce
         => /\ last_result'.kind = "result"
            /\ last_result'.provider_used = "system"
            /\ \A t \in BagToSet(turns') : t.pc # "generate"
                  \/ [t EXCEPT !.overlapped = FALSE] \in BagToSet(turns)
                  \/ t \in BagToSet(turns)
            /\ game_state' = [game_state EXCEPT
                  !.current_location = game_state'.current_location]
            /\ active_states' = active_states
            /\ recent_messages' = recent_messages
            /\ game_state'.current_location # game_state.current_location
                  => can_move_to(game_state'.current_location, game_state)
       ]_vars

\* number of invocations of a client within the generate call
Invocations(client) ==
    Cardinality({i \in 1..Len(gen.invoked) : gen.invoked[i].client = client})

\* C35: within one generate call each provider is invoked at most 3 times,
\* a provider is invoked again only after a transport-level failure (any
\* other exception and any response, valid or not, ends its attempts), the
\* call makes at most 2 * 3 + 1 invocations, and it ends with a response or
\* with the fatal error.
C35_BoundedRetries ==
    /\ [](/\ Invocations("primary") <= RetryAttempts
          /\ Invocations("fallback") <= RetryAttempts
          /\ Invocations("mock") <= 1
          /\ Len(gen.invoked) <= 2 * RetryAttempts + 1
          /\ \A i \in 1..Len(gen.invoked), j \in 1..Len(gen.invoked) :
                (i < j /\ gen.invoked[i].client = gen.invoked[j].client)
                   => gen.invoked[i].outcome = "transport")
    /\ <>(gen.pc \in {"returned", "raised"})

\* the primary was invoked three times, the secondary answered at once with
\* an error marker and was not asked again, the mock answered
C35_Witness ==
    /\ gen.pc = "returned"
    /\ Len(gen.invoked) = RetryAttempts + 2
    /\ \A i \in 1..RetryAttempts :
          /\ gen.invoked[i].client = "primary"
          /\ gen.invoked[i].outcome = "transport"
    /\ gen.invoked[RetryAttempts + 1].client = "fallback"
    /\ gen.invoked[RetryAttempts + 1].text = TextError
    /\ gen.invoked[RetryAttempts + 2].client = "mock"

----------------------------------------------------------------------------
(* Conditions and triggers that cannot be evaluated                        *)

\* patterns that re.compile rejects
MalformedPatterns == {"(", "[a-"}

\* ConditionEvaluator.evaluate as its caller sees it: [raised, value].
\* re.search raises re.error for a pattern that does not compile and
\* evaluate has no handler around it; _compare catches its own errors
evaluate_call(condition, gs, user_input, turn_count) ==
    IF /\ condition.type = "action"
       /\ condition.pattern # ""
       /\ condition.pattern \in MalformedPatterns
    THEN [raised |-> TRUE, value |-> FALSE]
    ELSE [raised |-> FALSE,
          value |-> evaluate(condition, gs, user_input, turn_count)]

\* StoryDirector._evaluate_trigger as its caller sees it: eval() is inside
\* try / except Exception
trigger_call(trigger, gs) ==
    [raised |-> FALSE, value |-> _evaluate_trigger(trigger, gs)]

\* conditions of every kind: well formed, with a value of another type than
\* the actual one, an operator or a type the evaluator does not know, a
\* pattern that does not compile
EvalConditions ==
    {QuestCondition("affinity", "Luna", "gte", VInt(50), ""),
     QuestCondition("affinity", "Luna", "gte", VStr("park"), ""),
     QuestCondition("affinity", "Luna", "gt", VStr("luna"), ""),
     QuestCondition("affinity", "Luna", "between", VInt(50), ""),
     QuestCondition("location", "", "eq", VStr("park"), ""),
     QuestCondition("location", "", "lte", VInt(1), ""),
     QuestCondition("turn_count", "", "gte", VInt(1), ""),
     QuestCondition("turn_count", "", "matches", VInt(1), ""),
     QuestCondition("mood", "", "eq", VInt(1), ""),
     QuestCondition("action", "", "eq", VInt(0), "ciao"),
     QuestCondition("action", "", "eq", VInt(0), "("),
     QuestCondition("action", "", "eq", VInt(0), "[a-")}

\* triggers: those of the arc, a name eval() does not know, an ordering of a
\* string and a number, an expression that is no Python
EvalTriggers ==
    {ArcBeats[i].trigger : i \in 1..Len(ArcBeats)}
    \cup {<<>>,
          <<Atom("mood", ">=", VInt(1))>>,
          <<Atom("location", ">=", VInt(3))>>,
          <<Atom("turn", "=>", VInt(1))>>,
          <<Atom("turn", ">=", VInt(1)), Atom("mood", "==", VInt(1))>>}

KnownTypes ==
    {"affinity", "location", "time", "flag", "turn_count", "inventory",
     "action", "companion", "quest_status"}
KnownOperators == {"eq", "gt", "lt", "gte", "lte", "contains"}

\* the condition cannot be evaluated
Impossible(condition) ==
    \/ condition.type \notin KnownTypes
    \/ condition.type \in {"affinity", "location", "time", "turn_count",
                           "companion"}
          /\ condition.operator \notin KnownOperators
    \/ condition.type = "action" /\ condition.pattern \in MalformedPatterns

\* the trigger cannot be evaluated: its first comparison already fails
ImpossibleTrigger(trigger, gs) ==
    /\ trigger # <<>>
    /\ \/ ~AtomOk(Head(trigger), TriggerContext(gs))
       \/ Head(trigger).op \notin {"==", ">="}

MaxEvalTurn == 2

\* nothing evaluated yet
NoValue == [raised |-> FALSE, value |-> FALSE]

EvalInit ==
    /\ \E t \in 0..MaxEvalTurn, a \in {0, 50},
          l \in {"classroom", "park"} :
          game_state = [InitGameState EXCEPT !.turn_count = t,
                                             !.affinity["Luna"] = a,
                                             !.current_location = l]
    /\ \/ \E condition \in EvalConditions, user_input \in SessionInputs :
             evaluation = [pc |-> "called", kind |-> "condition",
                           condition |-> condition,
                           user_input |-> user_input, result |-> NoValue]
       \/ \E trigger \in EvalTriggers :
             evaluation = [pc |-> "called", kind |-> "trigger",
                           trigger |-> trigger, result |-> NoValue]
    /\ session = SessionIdle
    /\ personality = PersonalityIdle
    /\ active_states = <<>>
    /\ beat_completed = {}
    /\ beat_history = <<>>
    /\ recent_messages = 0
    /\ turns = EmptyBag
    /\ started = 0
    /\ btn_send_enabled = TRUE
    /\ last_result = NoOutcome
    /\ gen = [pc |-> "unused"]
    /\ dir = DirIdle
    /\ quest_call = QuestIdle
    /\ memory = MemIdle
    /\ parse = ParseIdle
    /\ search = SearchIdle
    /\ validation = ValidationIdle
    /\ media = MediaIdle

EvalUnchanged ==
    UNCHANGED <<game_state, active_states, beat_completed, beat_history,
                recent_messages, turns, started, btn_send_enabled,
                last_result, gen, dir, quest_call, memory, parse, search,
                validation, media, session, personality>>

\* the quest step of the turn evaluates the condition
\* (check_activations or QuestEngine.process_turn, called by
\* GameEngine.process_turn outside any try)
EvaluateCondition ==
    /\ evaluation.pc = "called"
    /\ evaluation.kind = "condition"
    /\ evaluation' = [evaluation EXCEPT
                         !.pc = "done",
                         !.result = evaluate_call(evaluation.condition,
                                                  game_state,
                                                  evaluation.user_input,
                                                  game_state.turn_count)]
    /\ EvalUnchanged

\* get_active_instruction evaluates the trigger of a beat
EvaluateTrigger ==
    /\ evaluation.pc = "called"
    /\ evaluation.kind = "trigger"
    /\ evaluation' = [evaluation EXCEPT
                         !.pc = "done",
                         !.result = trigger_call(evaluation.trigger,
                                                 game_state)]
    /\ EvalUnchanged

EvalNext == EvaluateCondition \/ EvaluateTrigger

EvalSpec == EvalInit /\ [][EvalNext]_vars

\* C36: a quest condition or a beat trigger that cannot be evaluated (a
\* value of the wrong type, an unknown operator or condition type, a
\* malformed pattern or expression) counts as false, and no evaluation
\* raises into the turn.
C36_EvaluationNeverRaises ==
    evaluation.pc = "done"
       => /\ ~evaluation.result.raised
          /\ evaluation.kind = "condition"
                /\ Impossible(evaluation.condition)
                => ~evaluation.result.value
          /\ evaluation.kind = "trigger"
                /\ ImpossibleTrigger(evaluation.trigger, game_state)
                => ~evaluation.result.value

\* the same with the patterns that compile only
WellFormedPatternsNeverRaise ==
    (evaluation.pc = "done"
       /\ ~(evaluation.kind = "condition"
            /\ evaluation.condition.pattern \in MalformedPatterns))
       => /\ ~evaluation.result.raised
          /\ evaluation.kind = "condition"
                /\ Impossible(evaluation.condition)
                => ~evaluation.result.value
          /\ evaluation.kind = "trigger"
                /\ ImpossibleTrigger(evaluation.trigger, game_state)
                => ~evaluation.result.value

----------------------------------------------------------------------------
(* A batch of quest actions (the on_enter actions of a stage or the        *)
(* rewards of a quest) executed by _transition_stage                       *)

MaxBatch == 3

\* actions that succeed, an affinity change whose value is a string
\* (TypeError in change_affinity) and an action type the executor does not
\* know (execute returns False)
BatchActions ==
    {ChangeAffinity("Stella", VStr("lots")),
     ChangeAffinity("Luna", VInt(5)),
     SetOutfit("gym"),
     SetFlag("met", VBool(TRUE)),
     FailQuest("q2"),
     QuestAction("dance", "", VInt(0), "", "", "", "")}

Batches == UNION {[1..n -> BatchActions] : n \in 0..MaxBatch}

BatchInit ==
    /\ \E actions \in Batches :
          evaluation = [pc |-> "called", kind |-> "batch",
                        actions |-> actions, executed |-> <<>>]
    /\ game_state = [InitGameState EXCEPT !.active_quests = <<"q1", "q2">>]
    /\ session = SessionIdle
    /\ personality = PersonalityIdle
    /\ active_states = <<>>
    /\ beat_completed = {}
    /\ beat_history = <<>>
    /\ recent_messages = 0
    /\ turns = EmptyBag
    /\ started = 0
    /\ btn_send_enabled = TRUE
    /\ last_result = NoOutcome
    /\ gen = [pc |-> "unused"]
    /\ dir = DirIdle
    /\ quest_call = QuestIdle
    /\ memory = MemIdle
    /\ parse = ParseIdle
    /\ search = SearchIdle
    /\ validation = ValidationIdle
    /\ media = MediaIdle

\* the loop over the batch in _transition_stage
ExecuteBatch ==
    /\ evaluation.pc = "called"
    /\ evaluation.kind = "batch"
    /\ \E r \in {ExecuteAll(evaluation.actions, game_state, <<>>)} :
          /\ game_state' = r.gs
          /\ evaluation' = [evaluation EXCEPT !.pc = "done",
                                              !.executed = r.executed]
    /\ UNCHANGED <<active_states, beat_completed, beat_history,
                   recent_messages, turns, started, btn_send_enabled,
                   last_result, gen, dir, quest_call, memory, parse, search,
                   validation, media, session, personality>>

BatchNext == ExecuteBatch

BatchSpec == BatchInit /\ [][BatchNext]_vars

\* the action is one that the executor carries out
Succeeds(action) ==
    /\ action.action \in {"set_flag", "change_affinity", "set_location",
                          "set_outfit", "set_emotional_state", "start_quest",
                          "complete_quest", "fail_quest"}
    /\ ~(action.action = "change_affinity" /\ action.value.t = "str")

\* C38: in a batch of quest actions a failing action is skipped and the
\* batch goes on: the executed-actions list is the batch without its failing
\* actions, in the order of the batch, and the actions after a failing one
\* have had their effect on the game state.
C38_FailedActionSkipped ==
    evaluation.pc = "done" /\ evaluation.kind = "batch"
       => /\ evaluation.executed = SelectSeq(evaluation.actions, Succeeds)
          /\ SetOutfit("gym") \in Range(evaluation.actions)
                => game_state.companion_outfit = "gym"
          /\ FailQuest("q2") \in Range(evaluation.actions)
                => "q2" \notin Range(game_state.active_quests)
          /\ SetFlag("met", VBool(TRUE)) \in Range(evaluation.actions)
                => "met" \in DOMAIN game_state.flags

\* a batch whose first action fails, whose second succeeds, whose third
\* fails again
C38_Witness ==
    /\ evaluation.pc = "done"
    /\ evaluation.kind = "batch"
    /\ evaluation.actions = <<ChangeAffinity("Stella", VStr("lots")),
                              SetOutfit("gym"),
                              QuestAction("dance", "", VInt(0), "", "", "",
                                          "")>>
    /\ evaluation.executed = <<SetOutfit("gym")>>
    /\ game_state.companion_outfit = "gym"

----------------------------------------------------------------------------
(* PersonalityEngine: the impression an NPC holds about the player, the    *)
(* behaviours it remembers and its links to the other companions           *)

MaxPersonalityTurns == 3

Dimensions ==
    {"trust", "attraction", "fear", "curiosity", "dominance_balance"}

\* BEHAVIOR_PATTERNS in the order of the dict; an input is its sequence of
\* lower-case words and each behaviour is given the words of its patterns
\* that this world's inputs use
BehaviorOrder ==
    <<"aggressive", "shy", "romantic", "dominant", "submissive", "curious",
      "teasing", "protective">>
BehaviorTypes == Range(BehaviorOrder)
BEHAVIOR_PATTERNS ==
    [aggressive |-> {"attack", "ordina"},
     shy |-> {"nervous"},
     romantic |-> {"kiss", "love"},
     dominant |-> {"obey", "ordina"},
     submissive |-> {"sorry", "grazie", "obey"},
     curious |-> {"why"},
     teasing |-> {"flirt"},
     protective |-> {"help"}]

IMPACT_MATRIX ==
    [aggressive |-> [trust |-> -10, attraction |-> -5, fear |-> 15,
                     dominance_balance |-> -10],
     shy |-> [trust |-> 5, attraction |-> 10, fear |-> -5,
              dominance_balance |-> 5],
     romantic |-> [trust |-> 5, attraction |-> 15, curiosity |-> 5],
     dominant |-> [attraction |-> 5, fear |-> 10,
                   dominance_balance |-> -20],
     submissive |-> [trust |-> 5, fear |-> -10, dominance_balance |-> 15],
     curious |-> [trust |-> 5, curiosity |-> 10],
     teasing |-> [attraction |-> 10, curiosity |-> 5,
                  dominance_balance |-> -5],
     protective |-> [trust |-> 15, attraction |-> 5, fear |-> -10]]

\* occurrence counts at which a remembered behaviour becomes moderate and
\* strong (BehavioralMemory.update)
ModerateAt == 3
StrongAt == 5
IntensityOf(occurrences) ==
    IF occurrences >= StrongAt THEN "strong"
    ELSE IF occurrences >= ModerateAt THEN "moderate"
    ELSE "subtle"

\* BehavioralMemory.update(turn); occurrences = 0 stands for a behaviour
\* that is not in behavioral_memory yet
BehavioralMemoryUpdate(mem, turn) ==
    [occurrences |-> mem.occurrences + 1, last_turn |-> turn]

\* NPCLink; jealousy_sensitivity is a float, kept in tenths
NPCLink(jealousy_tenths, awareness) ==
    [jealousy_sensitivity |-> jealousy_tenths,
     awareness_of_player |-> awareness]

\* companion_def.relations of the world: Stella's link to Luna is preset,
\* Luna's link to Stella takes the defaults (0.5, 0)
Relations ==
    [Luna |-> [Stella |-> NPCLink(5, 0)],
     Stella |-> [Luna |-> NPCLink(10, 98)]]

\* PersonalityState(character_name=...) with the links that
\* initialize_npc_links gives it
PersonalityState(companion) ==
    [impression |-> [d \in Dimensions |-> 0],
     behavioral_memory |->
        [b \in BehaviorTypes |-> [occurrences |-> 0, last_turn |-> 0]],
     npc_links |-> Relations[companion]]

InitialStates == [c \in CompanionSet |-> PersonalityState(c)]

_record_behavior(states, companion_name, behavior, turn) ==
    [states EXCEPT ![companion_name].behavioral_memory[behavior] =
                       BehavioralMemoryUpdate(@, turn)]

_get_behavior_intensity(states, companion_name, behavior) ==
    IntensityOf(states[companion_name].behavioral_memory[behavior].occurrences)

\* the same without the clamp
_apply_impression_changes_unclamped(states, companion_name, changes) ==
    [states EXCEPT ![companion_name].impression =
        [d \in Dimensions |-> @[d] + DictGet(changes, d, 0)]]

_apply_impression_changes(states, companion_name, changes) ==
    [states EXCEPT ![companion_name].impression =
        [d \in Dimensions |->
            Max(-100, Min(100, @[d] + DictGet(changes, d, 0)))]]

\* impression_changes[dim] = impression_changes.get(dim, 0) + delta for
\* every entry of the behaviour's impacts
AddImpacts(changes, impacts) ==
    [d \in DOMAIN changes \cup DOMAIN impacts |->
        DictGet(changes, d, 0) + DictGet(impacts, d, 0)]

\* re.search of one of the behaviour's patterns in the input
Matches(behavior, user_input) ==
    \E i \in 1..Len(user_input) : user_input[i] \in BEHAVIOR_PATTERNS[behavior]

\* the loop of analyze_player_action over the behaviour types
RECURSIVE DetectFrom(_, _, _, _, _, _, _)
DetectFrom(order, states, companion_name, user_input, turn_count, detected, changes) ==
    IF order = <<>>
    THEN [states |-> states, detected |-> detected, changes |-> changes]
    ELSE IF ~Matches(Head(order), user_input)
    THEN DetectFrom(Tail(order), states, companion_name, user_input,
                    turn_count, detected, changes)
    ELSE DetectFrom(Tail(order),
                    _record_behavior(states, companion_name, Head(order),
                                     turn_count),
                    companion_name, user_input, turn_count,
                    Append(detected,
                           <<Head(order),
                             _get_behavior_intensity(
                                 _record_behavior(states, companion_name,
                                                  Head(order), turn_count),
                                 companion_name, Head(order))>>),
                    AddImpacts(changes, IMPACT_MATRIX[Head(order)]))

\* int(5 * link.jealousy_sensitivity) for a sensitivity that is not negative
AwarenessIncrease(link) == (5 * link.jealousy_sensitivity) \div 10

Significant(detected_traits) ==
    \E i \in 1..Len(detected_traits) :
        detected_traits[i][2] \in {"moderate", "strong"}

\* the same without the cap at 100
_update_npc_awareness_uncapped(states, active_companion, detected_traits) ==
    IF detected_traits = <<>> \/ ~Significant(detected_traits) THEN states
    ELSE [name \in DOMAIN states |->
            IF name = active_companion THEN states[name]
            ELSE IF active_companion \notin DOMAIN states[name].npc_links
            THEN states[name]
            ELSE [states[name] EXCEPT
                     !.npc_links[active_companion].awareness_of_player =
                         @ + AwarenessIncrease(
                                 states[name].npc_links[active_companion])]]

_update_npc_awareness(states, active_companion, detected_traits) ==
    IF detected_traits = <<>> \/ ~Significant(detected_traits) THEN states
    ELSE [name \in DOMAIN states |->
            IF name = active_companion THEN states[name]
            ELSE IF active_companion \notin DOMAIN states[name].npc_links
            THEN states[name]
            ELSE [states[name] EXCEPT
                     !.npc_links[active_companion].awareness_of_player =
                         Min(100, @ + AwarenessIncrease(
                                 states[name].npc_links[active_companion]))]]

\* _apply_impression_changes, then _update_npc_awareness, on what the loop
\* detected
ApplyDetected(a, companion_name) ==
    _update_npc_awareness(
        _apply_impression_changes(a.states, companion_name, a.changes),
        companion_name, a.detected)

analyze_player_action(states, companion_name, user_input, turn_count) ==
    ApplyDetected(DetectFrom(BehaviorOrder, states, companion_name,
                             user_input, turn_count, <<>>, EmptyDict),
                  companion_name)

\* what the provider did with the analysis request: generate raised (every
\* provider failed or timed out), the text is no JSON, the JSON has another
\* shape than asked for (AttributeError, TypeError, ValueError in
\* _parse_analysis_response), or it was parsed into these changes
DeepFailures == {"raised", "timeout", "unparseable", "malformed"}
DeepChanges ==
    {EmptyDict, [trust |-> 10], [trust |-> 150, fear |-> -150],
     [curiosity |-> -10, dominance_balance |-> 7]}
DeepOutcomes ==
    {[kind |-> k, changes |-> EmptyDict] : k \in DeepFailures}
    \cup {[kind |-> "parsed", changes |-> c] : c \in DeepChanges}

\* PersonalityAnalyzer.analyze_behavior: the impression_changes of the dict
\* it returns; every exception is caught and gives no changes
analyze_behavior(outcome) ==
    IF outcome.kind = "parsed" THEN outcome.changes ELSE EmptyDict

\* an analyze_with_llm that lets a failure of the analysis pass
analyze_with_llm_unguarded(states, companion_name, outcome) ==
    IF outcome.kind \in DeepFailures
    THEN [raised |-> TRUE, states |-> states]
    ELSE [raised |-> FALSE,
          states |-> _apply_impression_changes(states, companion_name,
                                               outcome.changes)]

\* PersonalityEngine.analyze_with_llm on a turn of the interval: [raised,
\* states]
analyze_with_llm(states, companion_name, outcome) ==
    [raised |-> FALSE,
     states |-> _apply_impression_changes(states, companion_name,
                                          analyze_behavior(outcome))]

\* the TurnResult of the turn
TurnResultOf(gs) == [kind |-> "result", turn_number |-> gs.turn_count]
NoTurnResult == [kind |-> "none", turn_number |-> 0]

PersonalityInputs ==
    {<<"ciao">>, <<"kiss">>, <<"ordina">>, <<"grazie">>, <<"help", "kiss">>}

PersonalityInit ==
    /\ \E use_llm \in BOOLEAN :
          personality = [pc |-> "ready", use_llm |-> use_llm,
                         states |-> InitialStates,
                         pattern |-> InitialStates,
                         deep |-> "none", result |-> NoTurnResult]
    /\ \E companion \in CompanionSet :
          game_state = [InitGameState EXCEPT !.active_companion = companion]
    /\ session = SessionIdle
    /\ evaluation = EvaluationIdle
    /\ active_states = <<>>
    /\ beat_completed = {}
    /\ beat_history = <<>>
    /\ recent_messages = 0
    /\ turns = EmptyBag
    /\ started = 0
    /\ btn_send_enabled = TRUE
    /\ last_result = NoOutcome
    /\ gen = [pc |-> "unused"]
    /\ dir = DirIdle
    /\ quest_call = QuestIdle
    /\ memory = MemIdle
    /\ parse = ParseIdle
    /\ search = SearchIdle
    /\ validation = ValidationIdle
    /\ media = MediaIdle

PersonalityUnchanged ==
    UNCHANGED <<active_states, beat_completed, beat_history, recent_messages,
                turns, started, btn_send_enabled, last_result, gen, dir,
                quest_call, memory, parse, search, validation, media,
                session, evaluation>>

\* step 1 of process_turn: the pattern-based analysis of the input
PersonalityAnalyze(user_input) ==
    /\ personality.pc = "ready"
    /\ \E s \in {analyze_player_action(personality.states,
                                       game_state.active_companion,
                                       user_input, game_state.turn_count)} :
          personality' = [personality EXCEPT !.pc = "analysed",
                                             !.states = s,
                                             !.pattern = s,
                                             !.deep = "none",
                                             !.result = NoTurnResult]
    /\ UNCHANGED game_state
    /\ PersonalityUnchanged

\* steps 2 to 9: the turn's affinity change is applied, the turn advances
\* and the state is saved
PersonalityTurnRuns(delta) ==
    /\ personality.pc = "analysed"
    /\ game_state.turn_count < MaxPersonalityTurns
    /\ game_state' = advance_turn(change_affinity(game_state,
                                                  game_state.active_companion,
                                                  delta, TRUE))
    /\ personality' = [personality EXCEPT !.pc = "saved"]
    /\ PersonalityUnchanged

\* step 10 when the pass is disabled or the turn is not one of the interval
PersonalityDeepSkipped ==
    /\ personality.pc = "saved"
    /\ \/ ~personality.use_llm
       \/ game_state.turn_count % llm_analysis_interval # 0
    /\ personality' = [personality EXCEPT !.pc = "ready",
                                          !.result = TurnResultOf(game_state)]
    /\ UNCHANGED game_state
    /\ PersonalityUnchanged

\* step 10 on a turn of the interval: analyze_with_llm awaited, then the
\* TurnResult is returned unless analyze_with_llm raised
PersonalityDeepEnds(outcome) ==
    /\ personality.pc = "saved"
    /\ personality.use_llm
    /\ game_state.turn_count % llm_analysis_interval = 0
    /\ \E r \in {analyze_with_llm(personality.states,
                                  game_state.active_companion, outcome)} :
          personality' = [personality EXCEPT
                             !.pc = "ready",
                             !.states = r.states,
                             !.deep = outcome.kind,
                             !.result = IF r.raised
                                        THEN [kind |-> "exception",
                                              turn_number |-> 0]
                                        ELSE TurnResultOf(game_state)]
    /\ UNCHANGED game_state
    /\ PersonalityUnchanged

PersonalityNext ==
    \/ \E user_input \in PersonalityInputs : PersonalityAnalyze(user_input)
    \/ \E delta \in {0, 5} : PersonalityTurnRuns(delta)
    \/ PersonalityDeepSkipped
    \/ \E outcome \in DeepOutcomes : PersonalityDeepEnds(outcome)

PersonalitySpec == PersonalityInit /\ [][PersonalityNext]_vars

\* C37: when the deep personality pass of a turn fails (the provider raised
\* or timed out, or its answer could not be parsed), process_turn still
\* returns the TurnResult it returns when the pass is disabled, and every
\* impression keeps the values the pattern-based analysis of the turn gave.
C37_DeepFailureSkipped ==
    (personality.pc = "ready" /\ personality.deep \in DeepFailures)
       => /\ personality.result = TurnResultOf(game_state)
          /\ \A c \in CompanionSet :
                personality.states[c].impression
                   = personality.pattern[c].impression

\* the pass failed on a turn whose pattern-based analysis had changed the
\* impression of the active companion, and the turn returned its result
C37_Witness ==
    /\ personality.pc = "ready"
    /\ personality.deep = "unparseable"
    /\ personality.result.kind = "result"
    /\ personality.result.turn_number = llm_analysis_interval
    /\ personality.states[game_state.active_companion].impression.attraction
          = 3 * 15

\* C39: after any sequence of pattern-based analyses and deep passes each of
\* the five impression dimensions of every NPC is within [-100, 100].
C39_ImpressionInRange ==
    personality.pc # "idle"
       => \A c \in CompanionSet, d \in Dimensions :
             /\ personality.states[c].impression[d] >= -100
             /\ personality.states[c].impression[d] <= 100

\* a deep pass asked for +150 trust and -150 fear: both ended at the limits
C39_Witness ==
    /\ personality.pc = "ready"
    /\ personality.deep = "parsed"
    /\ \E c \in CompanionSet :
          /\ personality.states[c].impression["trust"] = 100
          /\ personality.states[c].impression["fear"] = -100

\* C40: analysing a player action changes no affinity value of the
\* WorldState; of the awareness values it changes only those the other
\* companions have of the player with the active one, never a link of the
\* active companion itself, and no awareness exceeds 100.
C40_AwarenessOnlyOthers ==
    [][(personality.pc = "ready" /\ personality'.pc = "analysed")
          => /\ game_state'.affinity = game_state.affinity
             /\ personality'.states[game_state.active_companion].npc_links
                   = personality.states[game_state.active_companion].npc_links
             /\ \A c \in CompanionSet :
                   \A other \in DOMAIN personality'.states[c].npc_links :
                      /\ personality'.states[c].npc_links[other]
                            .awareness_of_player <= 100
                      /\ other # game_state.active_companion
                            => personality'.states[c].npc_links[other]
                                  = personality.states[c].npc_links[other]]_vars

\* the third romantic input towards Luna was noticed by Stella, whose
\* awareness went from 98 to the cap
C40_Witness ==
    /\ personality.pc = "analysed"
    /\ game_state.active_companion = "Luna"
    /\ personality.states["Luna"].behavioral_memory["romantic"].occurrences
          = ModerateAt
    /\ personality.states["Stella"].npc_links["Luna"].awareness_of_player
          = 100
    /\ personality.states["Luna"].npc_links["Stella"].awareness_of_player = 0

====
